---- MODULE Spec2Model ----
(***************************************************************************)
(* Payment ledger (EconomyV2.sol) and asset registry (PropertyV2.sol) of   *)
(* the proof-of-life property economy.                                     *)
(*                                                                         *)
(* Amounts are token base units.  TLC integers are 32 bit, so the unit     *)
(* 1e18 of the default price table is represented by Ether below; all      *)
(* arithmetic (multiply, then truncating divide) is done as in the source. *)
(* Strings whose length the contracts test (name, location) are sequences  *)
(* of bytes; property types are strings (only compared and tested for      *)
(* emptiness).  A payment id is the tuple that the contract hashes         *)
(* (abi.encodePacked of one address, two uint256 and a trailing string is  *)
(* injective, keccak256 is taken to be collision free).                    *)
(***************************************************************************)
EXTENDS Integers, Sequences, FiniteSets, TLC

(* ------------------------------ bounds --------------------------------- *)
MaxTicks == 2        \* clock advances per behaviour
MaxPayments == 2     \* successful initiatePayment calls per behaviour
MaxTokens == 3       \* assets minted per behaviour
MaxAdminOps == 1     \* successful admin calls per behaviour
MaxRequests == 2     \* confirm-payment requests per behaviour
MaxReferences == 1   \* references generated by initiate-payment per behaviour

(* --------------------------- program constants ------------------------- *)
Ether == 10          \* stands for 1e18 (see header)
Hour == 3600         \* "1 hours"
Day == 86400         \* "1 days"
MaxNameLen == 50     \* name / location length bound of mintProperty
MinLevel == 1
MaxLevel == 10
BpsDenominator == 10000

(* ------------------------------ principals ----------------------------- *)
ZERO == "0x0"                       \* address(0)
Economy == "economy"                \* address of the EconomyV2 contract
Treasury == "treasury"
DevWallet == "dev"
Users == {"u1", "u2"}               \* externally owned accounts that call in
Accounts == Users \cup {Economy, Treasury, DevWallet}
Verified == {"u1"}                  \* accounts the verification oracle accepts
Admin == "admin"                    \* owner() of both contracts
Callers == {Economy, "u2"}          \* accounts that call mintProperty and burn

(* ------------------------------ input sets ----------------------------- *)
ByteString(n) == [i \in 1..n |-> "a"]
ShortName == ByteString(1)
LongName == ByteString(MaxNameLen + 1)
Place == ByteString(2)
DefaultTypes == {"house", "apartment", "office", "land", "mansion"}
AllTypes == DefaultTypes \cup {"castle", ""}
ConfigurableTypes == {"house"}      \* the type the admin re-prices
TokenURI == "uri"
Durations == {1, Hour}
PurchaseArgs(sender, propertyType, name, location, level) ==
    [sender |-> sender, propertyType |-> propertyType, name |-> name,
     location |-> location, level |-> level]
\* argument vectors of initiatePayment and purchasePropertyWithLife: three that
\* the ledger accepts under the default price table, and one per validation rule
AcceptedArgs ==
    { PurchaseArgs("u1", "house", ShortName, Place, 2),
      PurchaseArgs("u2", "house", ShortName, Place, 2),
      PurchaseArgs("u1", "mansion", LongName, Place, 2) }
RejectedArgs ==
    { PurchaseArgs("u1", "castle", ShortName, Place, 2),
      PurchaseArgs("u1", "house", ShortName, Place, 11),
      PurchaseArgs("u1", "house", <<>>, Place, 2),
      PurchaseArgs("u1", "house", ShortName, <<>>, 2),
      PurchaseArgs("u2", "mansion", ShortName, Place, 2) }
CallArgs == AcceptedArgs \cup RejectedArgs
PaymentArgs(sender, propertyType, name, location, level, useWLD) ==
    [sender |-> sender, propertyType |-> propertyType, name |-> name,
     location |-> location, level |-> level, useWLD |-> useWLD]
\* initiatePayment calls of the payment life cycle
LifecycleArgs ==
    { PaymentArgs("u1", "house", ShortName, Place, 2, TRUE),
      PaymentArgs("u2", "house", ShortName, Place, 2, FALSE),
      PaymentArgs("u1", "mansion", LongName, Place, 2, FALSE),
      PaymentArgs("u2", "mansion", ShortName, Place, 2, FALSE) }
TokenFaults == {"none", "debit", "treasury", "dev"}
MintArgsOf(to, name, propertyType, location, level) ==
    [to |-> to, name |-> name, propertyType |-> propertyType,
     location |-> location, level |-> level]
\* argument vectors of direct mintProperty calls: one the registry accepts
\* (one level below the maximum) and two it rejects
RegistryArgs ==
    { MintArgsOf("u1", ShortName, "house", Place, 9),
      MintArgsOf(ZERO, ShortName, "house", Place, 9),
      MintArgsOf("u1", ShortName, "castle", Place, 9) }
RegistryPrice == 7                  \* purchasePrice argument of direct mints
\* the initiatePayment calls of the income scenarios (one per currency), and
\* their clock steps
IncomeArgs ==
    { PaymentArgs("u1", "house", ShortName, Place, 2, FALSE),
      PaymentArgs("u1", "house", ShortName, Place, 2, TRUE) }
DayDurations == {Hour, Day, Day + 1}
\* (baseIncomeRate, holdingBonusRate, maxHoldingBonus) the admin installs: a
\* base rate large enough for the bonus not to truncate to zero, with a bonus
\* rate below and one above the cap
IncomeRateChoices == { <<100 * Ether, 10, 5000>>, <<100 * Ether, 5000, 5000>> }
MintFaults == {"none", "mint"}      \* whether lifeToken.mint reverts
IncomeTokens == {0, 1}              \* the asset of the income scenarios, and an id never minted
TokenIds == 0..(MaxTokens - 1)
NoToken == -1
NoId == <<>>
UnknownId == <<ZERO, 0, 0, "">>
NoFrame == [op |-> "none", id |-> NoId]
\* confirm-payment requests the server handles in one behaviour
Requests == 1..MaxRequests
\* undefined: a local not yet assigned, a missing map entry, no response yet
Nothing == [undefined |-> TRUE]
IdleRequest == [pc |-> "idle", body |-> Nothing, paymentData |-> Nothing,
                transaction |-> Nothing, response |-> Nothing]

(* ------------------------------- records ------------------------------- *)
PropertyPrice(lifePrice, wldPrice, isActive, worldIdRequired) ==
    [lifePrice |-> lifePrice, wldPrice |-> wldPrice,
     isActive |-> isActive, worldIdRequired |-> worldIdRequired]

PropertyTypeConfig(baseStatusPoints, baseYieldRate, isActive) ==
    [baseStatusPoints |-> baseStatusPoints, baseYieldRate |-> baseYieldRate,
     isActive |-> isActive]

EmptyPayment ==
    [buyer |-> ZERO, propertyType |-> "", name |-> <<>>, location |-> <<>>,
     level |-> 0, tokenURI |-> "", amount |-> 0, isWLD |-> FALSE,
     timestamp |-> 0, completed |-> FALSE]

EmptyProperty ==
    [name |-> <<>>, propertyType |-> "", location |-> <<>>, level |-> 0,
     statusPoints |-> 0, yieldRate |-> 0, purchasePrice |-> 0,
     createdAt |-> 0, lastTransferTime |-> 0, originalOwner |-> ZERO]

DefaultPropertyPrices ==
    [t \in AllTypes |->
        CASE t = "house"     -> PropertyPrice(1000 * Ether, 10 * Ether, TRUE, FALSE)
          [] t = "apartment" -> PropertyPrice(500 * Ether, 5 * Ether, TRUE, FALSE)
          [] t = "office"    -> PropertyPrice(2000 * Ether, 20 * Ether, TRUE, FALSE)
          [] t = "land"      -> PropertyPrice(750 * Ether, (75 * Ether) \div 10, TRUE, FALSE)
          [] t = "mansion"   -> PropertyPrice(5000 * Ether, 50 * Ether, TRUE, TRUE)
          [] OTHER           -> PropertyPrice(0, 0, FALSE, FALSE)]

DefaultPropertyTypes ==
    [t \in AllTypes |->
        CASE t = "house"     -> PropertyTypeConfig(100, 300, TRUE)
          [] t = "apartment" -> PropertyTypeConfig(50, 200, TRUE)
          [] t = "office"    -> PropertyTypeConfig(200, 500, TRUE)
          [] t = "land"      -> PropertyTypeConfig(75, 100, TRUE)
          [] t = "mansion"   -> PropertyTypeConfig(500, 800, TRUE)
          [] OTHER           -> PropertyTypeConfig(0, 0, FALSE)]

\* price configurations the admin installs with setPropertyPrice
PriceChoices ==
    { PropertyPrice(7, 0, TRUE, FALSE),
      PropertyPrice(0, 7, TRUE, TRUE),
      PropertyPrice(7, 7, FALSE, FALSE) }

(* ------------------------------- state --------------------------------- *)
VARIABLES
    now,                 \* block.timestamp
    ticks,               \* number of clock advances so far (bounds the clock)
    adminOps,            \* number of admin calls so far (bounds them)
    \* EconomyV2 storage
    propertyPrices, pendingPayments, userNonce,
    totalPurchases, totalSpentLife, totalSpentWld,
    lastIncomeClaimTime, totalIncomeEarned,
    treasuryFee, devFee, treasury, devWallet,
    configEvents,        \* names of the configuration events EconomyV2 emitted, in order
    baseIncomeRate, holdingBonusRate, maxHoldingBonus, buybackPercentage,
    entered,             \* ReentrancyGuard status of EconomyV2
    frame,               \* the EconomyV2 call suspended in an external call
    \* PropertyV2 storage
    tokenIdCounter, properties, owners, ownerTokens, ownerTokensIndex,
    propertyTypeConfigs, authorizedMinters,
    propertyMinted,      \* ids of the PropertyMinted events, in emission order
    \* currency ledgers (external collaborators)
    lifeBalance, wldBalance,
    \* observation of the last call, and history
    last,                \* operation, payment id, outcome and asset of the last step
    issued,              \* payment ids returned by initiatePayment so far
    cancelled,           \* payment ids removed by cancelExpiredPayment so far
    completions,         \* payment id -> number of completed completePayment calls
    mintOrigin,          \* asset id -> payment id whose completion minted it
    incomeClaimed,       \* asset id -> amounts of its IncomeClaimedFromProperty events
    incomeDays,          \* asset id -> daysSinceLastClaim of the same events
    \* the payment server (my-app/src/app/api)
    paymentReferences,   \* the module-level Map: reference -> payment data
    requests,            \* confirm-payment requests: position in POST and locals
    purchaseCalls,       \* references of the purchaseProperty calls sent, in order
    uuids                \* number of references crypto.randomUUID has produced

feeVars == <<treasuryFee, devFee, treasury, devWallet, configEvents>>
rateVars == <<baseIncomeRate, holdingBonusRate, maxHoldingBonus, buybackPercentage>>
economyVars == <<propertyPrices, pendingPayments, userNonce, totalPurchases,
                 totalSpentLife, totalSpentWld, lastIncomeClaimTime,
                 totalIncomeEarned, feeVars, rateVars>>
statsVars == <<totalPurchases, totalSpentLife, totalSpentWld, totalIncomeEarned>>
registryVars == <<tokenIdCounter, properties, owners, ownerTokens,
                  ownerTokensIndex, propertyTypeConfigs, authorizedMinters,
                  propertyMinted>>
currencyVars == <<lifeBalance, wldBalance>>
guardVars == <<entered, frame>>
historyVars == <<issued, cancelled, completions, mintOrigin, incomeClaimed, incomeDays>>
serverVars == <<paymentReferences, requests, purchaseCalls, uuids>>
clockVars == <<now, ticks>>
vars == <<now, ticks, adminOps, economyVars, guardVars, registryVars,
          currencyVars, last, historyVars, serverVars>>

(* ------------------------------ helpers -------------------------------- *)
\* pendingPayments[id] of a Solidity mapping: the zero record when absent
Payment(id) ==
    IF id \in DOMAIN pendingPayments THEN pendingPayments[id] ELSE EmptyPayment

\* keccak256(abi.encodePacked(msg.sender, userNonce, block.timestamp, propertyType))
PaymentId(sender, nonce, timestamp, propertyType) ==
    <<sender, nonce, timestamp, propertyType>>

\* lifeToken.hasReceivedSigningBonus(user)
hasReceivedSigningBonus(user) == user \in Verified

\* variant: the division rounds up
LevelPrice_roundUp(base, level) == (base * (100 + (level - 1) * 20) + 99) \div 100

\* level multiplier 100 + (level-1)*20 applied with truncating division
LevelPrice(base, level) == (base * (100 + (level - 1) * 20)) \div 100

TotalNonce == Cardinality(issued)

Call(op, id, result, tokenId, nested) ==
    [op |-> op, id |-> id, result |-> result, tokenId |-> tokenId, nested |-> nested]

\* the observation of a call on an asset, with its msg.sender
CallBy(sender, op, result, tokenId) ==
    [op |-> op, id |-> NoId, result |-> result, tokenId |-> tokenId,
     nested |-> FALSE, sender |-> sender]


(* ------------------------------ Init ----------------------------------- *)
Init ==
    /\ now = 1
    /\ ticks = 0
    /\ adminOps = 0
    /\ propertyPrices = DefaultPropertyPrices
    /\ pendingPayments = <<>>
    /\ userNonce = [u \in Users |-> 0]
    /\ totalPurchases = [u \in Users |-> 0]
    /\ totalSpentLife = [u \in Users |-> 0]
    /\ totalSpentWld = [u \in Users |-> 0]
    /\ lastIncomeClaimTime = [t \in TokenIds |-> 0]
    /\ totalIncomeEarned = [u \in Users |-> 0]
    /\ treasuryFee = 500
    /\ devFee = 200
    /\ treasury = Treasury
    /\ devWallet = DevWallet
    /\ configEvents = <<>>
    /\ baseIncomeRate = 1 * Ether
    /\ holdingBonusRate = 10
    /\ maxHoldingBonus = 5000
    /\ buybackPercentage = 7500
    /\ entered = FALSE
    /\ frame = NoFrame
    /\ tokenIdCounter = 0
    /\ properties = [t \in TokenIds |-> EmptyProperty]
    /\ owners = [t \in TokenIds |-> ZERO]
    /\ ownerTokens = [a \in Accounts |-> <<>>]
    /\ ownerTokensIndex = [t \in TokenIds |-> 0]
    /\ propertyTypeConfigs = DefaultPropertyTypes
    /\ authorizedMinters = [a \in Accounts |-> a = Economy]
    /\ propertyMinted = <<>>
    /\ lifeBalance = [a \in Accounts |->
                        IF a = "u1" THEN 10000 * Ether
                        ELSE IF a = "u2" THEN 100 * Ether ELSE 0]
    /\ wldBalance = [a \in Accounts |-> IF a \in Users THEN 100 * Ether ELSE 0]
    /\ last = Call("init", NoId, "ok", NoToken, FALSE)
    /\ issued = {}
    /\ cancelled = {}
    /\ completions = <<>>
    /\ mintOrigin = [t \in TokenIds |-> NoId]
    /\ incomeClaimed = [t \in TokenIds |-> <<>>]
    /\ incomeDays = [t \in TokenIds |-> <<>>]
    /\ paymentReferences = <<>>
    /\ requests = [r \in Requests |-> IdleRequest]
    /\ purchaseCalls = <<>>
    /\ uuids = 0

(* ------------------------ PropertyV2: mintProperty --------------------- *)
\* the require chain of mintProperty; "ok" when every require passes
mintPropertyCheck(sender, to, name, propertyType, location, level) ==
    IF ~authorizedMinters[sender] THEN "Not authorized to mint"
    ELSE IF to = ZERO THEN "Cannot mint to zero address"
    ELSE IF ~(level >= MinLevel /\ level <= MaxLevel) THEN "Level must be between 1 and 10"
    ELSE IF ~(Len(name) > 0 /\ Len(name) <= MaxNameLen) THEN "Invalid name length"
    ELSE IF propertyType = "" THEN "Property type cannot be empty"
    ELSE IF ~(Len(location) > 0 /\ Len(location) <= MaxNameLen) THEN "Invalid location length"
    ELSE IF ~propertyTypeConfigs[propertyType].isActive THEN "Invalid or inactive property type"
    ELSE "ok"

\* variant: the yield rate ignores the level
NewProperty_flatYield(to, name, propertyType, location, level, purchasePrice) ==
    LET config == propertyTypeConfigs[propertyType] IN
    [name |-> name, propertyType |-> propertyType, location |-> location,
     level |-> level,
     statusPoints |-> config.baseStatusPoints * level,
     yieldRate |-> config.baseYieldRate,
     purchasePrice |-> purchasePrice,
     createdAt |-> now, lastTransferTime |-> now, originalOwner |-> to]

\* the PropertyMetadata record mintProperty stores
NewProperty(to, name, propertyType, location, level, purchasePrice) ==
    LET config == propertyTypeConfigs[propertyType] IN
    [name |-> name, propertyType |-> propertyType, location |-> location,
     level |-> level,
     statusPoints |-> config.baseStatusPoints * level,
     yieldRate |-> config.baseYieldRate + (level - 1) * 50,
     purchasePrice |-> purchasePrice,
     createdAt |-> now, lastTransferTime |-> now, originalOwner |-> to]

\* the storage writes of a mintProperty call whose requires passed;
\* the id it returns is the pre-state tokenIdCounter
mintProperty(to, name, propertyType, location, level, purchasePrice) ==
    LET tokenId == tokenIdCounter IN
    /\ tokenIdCounter' = tokenIdCounter + 1
    /\ properties' = [properties EXCEPT ![tokenId] =
            NewProperty(to, name, propertyType, location, level, purchasePrice)]
    /\ owners' = [owners EXCEPT ![tokenId] = to]
    /\ ownerTokensIndex' = [ownerTokensIndex EXCEPT ![tokenId] = Len(ownerTokens[to])]
    /\ ownerTokens' = [ownerTokens EXCEPT ![to] = Append(@, tokenId)]
    /\ propertyMinted' = Append(propertyMinted, tokenId)
    /\ UNCHANGED <<propertyTypeConfigs, authorizedMinters>>

(* ------------------------ EconomyV2: initiatePayment ------------------- *)
\* variant: the verification oracle is never consulted
initiatePaymentCheck_noWorldId(sender, propertyType, name, location, level, useWLD) ==
    LET price == propertyPrices[propertyType] IN
    IF ~price.isActive THEN "Property type not available"
    ELSE IF ~(level >= MinLevel /\ level <= MaxLevel) THEN "Invalid level"
    ELSE IF ~(Len(name) > 0) THEN "Name cannot be empty"
    ELSE IF ~(Len(location) > 0) THEN "Location cannot be empty"
    ELSE IF useWLD /\ ~(price.wldPrice > 0) THEN "WLD payment not accepted"
    ELSE IF ~useWLD /\ ~(price.lifePrice > 0) THEN "LIFE payment not accepted"
    ELSE "ok"

\* the require chain of initiatePayment
initiatePaymentCheck(sender, propertyType, name, location, level, useWLD) ==
    LET price == propertyPrices[propertyType] IN
    IF ~price.isActive THEN "Property type not available"
    ELSE IF ~(level >= MinLevel /\ level <= MaxLevel) THEN "Invalid level"
    ELSE IF ~(Len(name) > 0) THEN "Name cannot be empty"
    ELSE IF ~(Len(location) > 0) THEN "Location cannot be empty"
    ELSE IF price.worldIdRequired /\ ~hasReceivedSigningBonus(sender)
         THEN "World ID verification required"
    ELSE IF useWLD /\ ~(price.wldPrice > 0) THEN "WLD payment not accepted"
    ELSE IF ~useWLD /\ ~(price.lifePrice > 0) THEN "LIFE payment not accepted"
    ELSE "ok"

\* finalPrice of initiatePayment
FinalPrice(propertyType, level, useWLD) ==
    IF useWLD THEN LevelPrice(propertyPrices[propertyType].wldPrice, level)
    ELSE LevelPrice(propertyPrices[propertyType].lifePrice, level)

\* the PendingPayment record initiatePayment stores
NewPendingPayment(sender, propertyType, name, location, level, useWLD) ==
    [buyer |-> sender, propertyType |-> propertyType, name |-> name,
     location |-> location, level |-> level, tokenURI |-> TokenURI,
     amount |-> FinalPrice(propertyType, level, useWLD), isWLD |-> useWLD,
     timestamp |-> now, completed |-> FALSE]

\* variant: the nonce is not incremented
NextNonce_stuck(sender) == userNonce

\* variant: every user's nonce is incremented
NextNonce_all(sender) == [u \in Users |-> userNonce[u] + 1]

\* userNonce[msg.sender]++
NextNonce(sender) == [userNonce EXCEPT ![sender] = @ + 1]

initiatePayment(sender, propertyType, name, location, level, useWLD) ==
    /\ frame = NoFrame
    /\ LET res == initiatePaymentCheck(sender, propertyType, name, location, level, useWLD)
           paymentId == PaymentId(sender, userNonce[sender], now, propertyType)
       IN IF res = "ok"
          THEN /\ TotalNonce < MaxPayments
               /\ userNonce' = NextNonce(sender)
               /\ pendingPayments' =
                     [i \in DOMAIN pendingPayments \cup {paymentId} |->
                        IF i = paymentId
                        THEN NewPendingPayment(sender, propertyType, name, location, level, useWLD)
                        ELSE pendingPayments[i]]
               /\ issued' = issued \cup {paymentId}
               /\ last' = Call("initiatePayment", paymentId, "ok", NoToken, FALSE)
          ELSE /\ last' = Call("initiatePayment", NoId, res, NoToken, FALSE)
               /\ UNCHANGED <<userNonce, pendingPayments, issued>>
    /\ UNCHANGED <<clockVars, adminOps, propertyPrices, statsVars, lastIncomeClaimTime,
                   feeVars, rateVars, guardVars, registryVars, currencyVars,
                   cancelled, completions, mintOrigin, incomeClaimed, incomeDays, serverVars>>

(* ------------------------ EconomyV2: completePayment ------------------- *)
\* variant: the window test is off by one second
WithinWindow_late(payment) == now <= payment.timestamp + Hour + 1

\* variant: the window closes at the boundary instant
WithinWindow_strict(payment) == now < payment.timestamp + Hour

\* "1 hours" window test of completePayment
WithinWindow(payment) == now <= payment.timestamp + Hour

\* variant: the require on payment.completed is missing
completePaymentCheck_noCompleted(paymentId) ==
    LET payment == Payment(paymentId) IN
    IF entered THEN "ReentrancyGuardReentrantCall"
    ELSE IF ~(payment.buyer # ZERO) THEN "Payment not found"
    ELSE IF ~WithinWindow(payment) THEN "Payment expired"
    ELSE "ok"

\* nonReentrant, then the require chain of completePayment
completePaymentCheck(paymentId) ==
    LET payment == Payment(paymentId) IN
    IF entered THEN "ReentrancyGuardReentrantCall"
    ELSE IF ~(payment.buyer # ZERO) THEN "Payment not found"
    ELSE IF ~(~payment.completed) THEN "Payment already completed"
    ELSE IF ~WithinWindow(payment) THEN "Payment expired"
    ELSE "ok"

\* variant: the flag is not written before the external call
MarkCompleted_late(paymentId) == pendingPayments

\* payment.completed = true, written before the external mint call
MarkCompleted(paymentId) ==
    [pendingPayments EXCEPT ![paymentId].completed = TRUE]

\* variant: the asset is priced at completion time instead of initiation time
MintArgs_repriced(payment) ==
    [to |-> payment.buyer, name |-> payment.name, propertyType |-> payment.propertyType,
     location |-> payment.location, level |-> payment.level,
     purchasePrice |-> FinalPrice(payment.propertyType, payment.level, payment.isWLD)]

\* the arguments completePayment passes to propertyContract.mintProperty
MintArgs(payment) ==
    [to |-> payment.buyer, name |-> payment.name, propertyType |-> payment.propertyType,
     location |-> payment.location, level |-> payment.level,
     purchasePrice |-> payment.amount]

\* the statements of completePayment from the mint call to its end
FinishCompletion(paymentId, nested) ==
    LET payment == Payment(paymentId)
        m == MintArgs(payment)
        tokenId == tokenIdCounter
    IN /\ mintProperty(m.to, m.name, m.propertyType, m.location, m.level, m.purchasePrice)
       /\ totalPurchases' = [totalPurchases EXCEPT ![payment.buyer] = @ + 1]
       /\ IF payment.isWLD
          THEN /\ totalSpentWld' = [totalSpentWld EXCEPT ![payment.buyer] = @ + payment.amount]
               /\ UNCHANGED totalSpentLife
          ELSE /\ totalSpentLife' = [totalSpentLife EXCEPT ![payment.buyer] = @ + payment.amount]
               /\ UNCHANGED totalSpentWld
       /\ lastIncomeClaimTime' = [lastIncomeClaimTime EXCEPT ![tokenId] = now]
       /\ mintOrigin' = [mintOrigin EXCEPT ![tokenId] = paymentId]
       /\ completions' =
             [i \in DOMAIN completions \cup {paymentId} |->
                IF i \in DOMAIN completions
                THEN completions[i] + (IF i = paymentId THEN 1 ELSE 0)
                ELSE 1]
       /\ last' = Call("completePayment", paymentId, "ok", tokenId, nested)

\* variant: only the record's buyer may complete it
completePayment_buyerOnly(caller, paymentId) ==
    /\ frame = NoFrame
    /\ LET res == IF Payment(paymentId).buyer # ZERO /\ caller # Payment(paymentId).buyer
                  THEN "Not the buyer" ELSE completePaymentCheck(paymentId) IN
       IF res = "ok"
       THEN /\ tokenIdCounter < MaxTokens
            /\ pendingPayments' = MarkCompleted(paymentId)
            /\ entered' = TRUE
            /\ frame' = [op |-> "completePayment", id |-> paymentId]
            /\ last' = Call("completePayment", paymentId, "in mint", NoToken, FALSE)
       ELSE /\ last' = Call("completePayment", paymentId, res, NoToken, FALSE)
            /\ UNCHANGED <<pendingPayments, guardVars>>
    /\ UNCHANGED <<clockVars, adminOps, propertyPrices, userNonce, statsVars,
                   lastIncomeClaimTime, feeVars, rateVars, registryVars,
                   currencyVars, historyVars, serverVars>>

\* completePayment up to the external call propertyContract.mintProperty
completePayment(caller, paymentId) ==
    /\ frame = NoFrame
    /\ LET res == completePaymentCheck(paymentId) IN
       IF res = "ok"
       THEN /\ tokenIdCounter < MaxTokens
            /\ pendingPayments' = MarkCompleted(paymentId)
            /\ entered' = TRUE
            /\ frame' = [op |-> "completePayment", id |-> paymentId]
            /\ last' = Call("completePayment", paymentId, "in mint", NoToken, FALSE)
       ELSE /\ last' = Call("completePayment", paymentId, res, NoToken, FALSE)
            /\ UNCHANGED <<pendingPayments, guardVars>>
    /\ UNCHANGED <<clockVars, adminOps, propertyPrices, userNonce, statsVars,
                   lastIncomeClaimTime, feeVars, rateVars, registryVars,
                   currencyVars, historyVars, serverVars>>


\* completePayment from the return of the external mint call to its end; a
\* mint that reverts reverts the whole call, the completed flag included
completePaymentReturn ==
    /\ frame.op = "completePayment"
    /\ LET paymentId == frame.id
           payment == Payment(paymentId)
           res == mintPropertyCheck(Economy, payment.buyer, payment.name,
                                    payment.propertyType, payment.location, payment.level)
       IN IF res = "ok"
          THEN /\ tokenIdCounter < MaxTokens
               /\ FinishCompletion(paymentId, FALSE)
               /\ UNCHANGED pendingPayments
          ELSE /\ pendingPayments' = [pendingPayments EXCEPT ![paymentId].completed = FALSE]
               /\ last' = Call("completePayment", paymentId, res, NoToken, FALSE)
               /\ UNCHANGED <<totalPurchases, totalSpentLife, totalSpentWld,
                              lastIncomeClaimTime, registryVars, mintOrigin, completions>>
    /\ entered' = FALSE
    /\ frame' = NoFrame
    /\ UNCHANGED <<clockVars, adminOps, propertyPrices, userNonce, totalIncomeEarned,
                   feeVars, rateVars, currencyVars, issued, cancelled,
                   incomeClaimed, incomeDays, serverVars>>

\* a completePayment call issued from inside the external mint call of a
\* suspended completePayment (the whole nested call runs before the mint returns)
reenterCompletePayment(caller, paymentId) ==
    /\ frame.op = "completePayment"
    /\ LET payment == Payment(paymentId)
           res == completePaymentCheck(paymentId)
           mintRes == mintPropertyCheck(Economy, payment.buyer, payment.name,
                                        payment.propertyType, payment.location, payment.level)
       IN IF res = "ok" /\ mintRes = "ok"
          THEN /\ tokenIdCounter < MaxTokens
               /\ pendingPayments' = MarkCompleted(paymentId)
               /\ FinishCompletion(paymentId, TRUE)
          ELSE /\ last' = Call("completePayment", paymentId,
                               IF res = "ok" THEN mintRes ELSE res, NoToken, TRUE)
               /\ UNCHANGED <<pendingPayments, totalPurchases, totalSpentLife, totalSpentWld,
                              lastIncomeClaimTime, registryVars, mintOrigin, completions>>
    /\ UNCHANGED <<clockVars, adminOps, propertyPrices, userNonce, totalIncomeEarned,
                   feeVars, rateVars, guardVars, currencyVars, issued, cancelled,
                   incomeClaimed, incomeDays, serverVars>>

(* --------------------- EconomyV2: cancelExpiredPayment ----------------- *)
\* variant: the expiry test admits the boundary instant
IsExpired_early(payment) == now >= payment.timestamp + Hour

\* "block.timestamp > payment.timestamp + 1 hours"
IsExpired(payment) == now > payment.timestamp + Hour

\* variant: the require on payment.completed is missing
cancelExpiredPaymentCheck_noCompleted(paymentId) ==
    LET payment == Payment(paymentId) IN
    IF ~(payment.buyer # ZERO) THEN "Payment not found"
    ELSE IF ~(now > payment.timestamp + Hour) THEN "Payment not expired"
    ELSE "ok"

\* the require chain of cancelExpiredPayment
cancelExpiredPaymentCheck(paymentId) ==
    LET payment == Payment(paymentId) IN
    IF ~(payment.buyer # ZERO) THEN "Payment not found"
    ELSE IF ~(~payment.completed) THEN "Payment already completed"
    ELSE IF ~IsExpired(payment) THEN "Payment not expired"
    ELSE "ok"

\* delete pendingPayments[paymentId]
DeletePayment(paymentId) ==
    [i \in DOMAIN pendingPayments \ {paymentId} |-> pendingPayments[i]]

cancelExpiredPayment(caller, paymentId) ==
    /\ frame = NoFrame
    /\ LET res == cancelExpiredPaymentCheck(paymentId) IN
       /\ last' = Call("cancelExpiredPayment", paymentId, res, NoToken, FALSE)
       /\ IF res = "ok"
          THEN /\ pendingPayments' = DeletePayment(paymentId)
               /\ cancelled' = cancelled \cup {paymentId}
          ELSE UNCHANGED <<pendingPayments, cancelled>>
    /\ UNCHANGED <<clockVars, adminOps, propertyPrices, userNonce, statsVars,
                   lastIncomeClaimTime, feeVars, rateVars, guardVars, registryVars,
                   currencyVars, issued, completions, mintOrigin, incomeClaimed, incomeDays, serverVars>>

(* -------------------- EconomyV2: purchasePropertyWithLife -------------- *)
\* treasuryAmount and devAmount of _distributeFees
TreasuryAmount(amount) == (amount * treasuryFee) \div BpsDenominator
DevAmount(amount) == (amount * devFee) \div BpsDenominator

\* the require chain of purchasePropertyWithLife up to the price
purchaseValidation(sender, propertyType, name, location, level) ==
    LET price == propertyPrices[propertyType] IN
    IF entered THEN "ReentrancyGuardReentrantCall"
    ELSE IF ~price.isActive THEN "Property type not available"
    ELSE IF ~(level >= MinLevel /\ level <= MaxLevel) THEN "Invalid level"
    ELSE IF ~(Len(name) > 0) THEN "Name cannot be empty"
    ELSE IF ~(Len(location) > 0) THEN "Location cannot be empty"
    ELSE IF price.worldIdRequired /\ ~hasReceivedSigningBonus(sender)
         THEN "World ID verification required"
    ELSE IF ~(price.lifePrice > 0) THEN "LIFE payment not accepted"
    ELSE "ok"

\* variant: the result of lifeToken.transferFrom is not checked
purchaseCheck_uncheckedDebit(sender, propertyType, name, location, level, tokenFault) ==
    LET v == purchaseValidation(sender, propertyType, name, location, level)
        finalPrice == LevelPrice(propertyPrices[propertyType].lifePrice, level)
    IN IF v # "ok" THEN v
       ELSE IF TreasuryAmount(finalPrice) > 0 /\ tokenFault = "treasury"
            THEN "Treasury transfer failed"
       ELSE IF DevAmount(finalPrice) > 0 /\ tokenFault = "dev"
            THEN "Dev transfer failed"
       ELSE mintPropertyCheck(Economy, sender, name, propertyType, location, level)

\* the outcome of purchasePropertyWithLife: the first failing require or
\* external call in source order.  tokenFault is the behaviour of the LIFE
\* token beyond its balance check: which of its calls (if any) it refuses.
purchaseCheck(sender, propertyType, name, location, level, tokenFault) ==
    LET v == purchaseValidation(sender, propertyType, name, location, level)
        finalPrice == LevelPrice(propertyPrices[propertyType].lifePrice, level)
    IN IF v # "ok" THEN v
       ELSE IF tokenFault = "debit" \/ lifeBalance[sender] < finalPrice
            THEN "LIFE transfer failed"
       ELSE IF TreasuryAmount(finalPrice) > 0 /\ tokenFault = "treasury"
            THEN "Treasury transfer failed"
       ELSE IF DevAmount(finalPrice) > 0 /\ tokenFault = "dev"
            THEN "Dev transfer failed"
       ELSE mintPropertyCheck(Economy, sender, name, propertyType, location, level)

\* variant: the dev share is computed but never transferred
BalancesAfterPurchase_noDev(sender, finalPrice) ==
    LET t == TreasuryAmount(finalPrice)
        afterDebit == [lifeBalance EXCEPT ![sender] = @ - finalPrice,
                                          ![Economy] = @ + finalPrice]
    IN [afterDebit EXCEPT ![Economy] = @ - t, ![treasury] = @ + t]

\* LIFE balances after transferFrom(sender, this, finalPrice) and _distributeFees
BalancesAfterPurchase(sender, finalPrice) ==
    LET t == TreasuryAmount(finalPrice)
        d == DevAmount(finalPrice)
        afterDebit == [lifeBalance EXCEPT ![sender] = @ - finalPrice,
                                          ![Economy] = @ + finalPrice]
        afterTreasury == [afterDebit EXCEPT ![Economy] = @ - t, ![treasury] = @ + t]
    IN [afterTreasury EXCEPT ![Economy] = @ - d, ![devWallet] = @ + d]

purchasePropertyWithLife(sender, propertyType, name, location, level, tokenFault) ==
    /\ frame = NoFrame
    /\ LET res == purchaseCheck(sender, propertyType, name, location, level, tokenFault)
           finalPrice == LevelPrice(propertyPrices[propertyType].lifePrice, level)
           tokenId == tokenIdCounter
       IN IF res = "ok"
          THEN /\ tokenIdCounter < MaxTokens
               /\ lifeBalance' = BalancesAfterPurchase(sender, finalPrice)
               /\ mintProperty(sender, name, propertyType, location, level, finalPrice)
               /\ totalPurchases' = [totalPurchases EXCEPT ![sender] = @ + 1]
               /\ totalSpentLife' = [totalSpentLife EXCEPT ![sender] = @ + finalPrice]
               /\ lastIncomeClaimTime' = [lastIncomeClaimTime EXCEPT ![tokenId] = now]
               /\ last' = Call("purchasePropertyWithLife", NoId, "ok", tokenId, FALSE)
          ELSE /\ last' = Call("purchasePropertyWithLife", NoId, res, NoToken, FALSE)
               /\ UNCHANGED <<lifeBalance, registryVars, totalPurchases, totalSpentLife,
                              lastIncomeClaimTime>>
    /\ UNCHANGED <<clockVars, adminOps, propertyPrices, pendingPayments, userNonce,
                   totalSpentWld, totalIncomeEarned, feeVars, rateVars, guardVars,
                   wldBalance, historyVars, serverVars>>

(* ------------------------ EconomyV2: setPropertyPrice ------------------ *)
\* onlyOwner: the admin is the only caller modelled
setPropertyPrice(propertyType, price) ==
    /\ frame = NoFrame
    /\ adminOps < MaxAdminOps
    /\ adminOps' = adminOps + 1
    /\ propertyPrices' = [propertyPrices EXCEPT ![propertyType] = price]
    /\ configEvents' = Append(configEvents, "PropertyPriceUpdated")
    /\ last' = Call("setPropertyPrice", NoId, "ok", NoToken, FALSE)
    /\ UNCHANGED <<clockVars, pendingPayments, userNonce, statsVars, lastIncomeClaimTime,
                   treasuryFee, devFee, treasury, devWallet, rateVars, guardVars,
                   registryVars, currencyVars, historyVars, serverVars>>

(* ---------------------- EconomyV2: calculatePropertyPrice --------------- *)
\* (propertyType, level) arguments of the price query: a default type at an
\* inner level, at the maximum level and on both sides of the level range, a
\* type with no entry, and one that needs verification
QueryArgs ==
    { <<"house", 2>>, <<"house", 10>>, <<"house", 11>>, <<"house", 0>>,
      <<"castle", 2>>, <<"mansion", 2>> }

\* the observation of a view call: its arguments and the values it returns
Returned(op, args, result, value) ==
    [op |-> op, id |-> NoId, result |-> result, tokenId |-> NoToken,
     nested |-> FALSE, args |-> args, value |-> value]

\* checked uint256 arithmetic: level - 1 underflows at level 0
calculatePropertyPriceCheck(propertyType, level) ==
    IF level - 1 < 0 THEN "Panic(0x11)" ELSE "ok"

\* variant: the level multiplier is held in a uint8
calculatePropertyPriceReturn_uint8(propertyType, level) ==
    LET price == propertyPrices[propertyType]
        levelMultiplier == (100 + (level - 1) * 20) % 256
    IN <<(price.lifePrice * levelMultiplier) \div 100,
         (price.wldPrice * levelMultiplier) \div 100>>

\* (lifePrice, wldPrice) that calculatePropertyPrice returns
calculatePropertyPriceReturn(propertyType, level) ==
    LET price == propertyPrices[propertyType]
        levelMultiplier == 100 + (level - 1) * 20
    IN <<(price.lifePrice * levelMultiplier) \div 100,
         (price.wldPrice * levelMultiplier) \div 100>>

\* a view: it reads propertyPrices and writes nothing
calculatePropertyPrice(propertyType, level) ==
    /\ frame = NoFrame
    /\ LET res == calculatePropertyPriceCheck(propertyType, level)
       IN last' = Returned("calculatePropertyPrice", <<propertyType, level>>, res,
                           IF res = "ok"
                           THEN calculatePropertyPriceReturn(propertyType, level)
                           ELSE <<>>)
    /\ UNCHANGED <<clockVars, adminOps, economyVars, guardVars, registryVars,
                   currencyVars, historyVars, serverVars>>

(* ------------------------------- clock --------------------------------- *)
\* block.timestamp of the next transaction; it never moves inside a call
AdvanceTime(d) ==
    /\ frame = NoFrame
    /\ ticks < MaxTicks
    /\ ticks' = ticks + 1
    /\ now' = now + d
    /\ last' = Call("advanceTime", NoId, "ok", NoToken, FALSE)
    /\ UNCHANGED <<adminOps, economyVars, guardVars, registryVars, currencyVars, historyVars, serverVars>>

(* ---------------------- PropertyV2: owner enumeration ------------------ *)
\* Panic of _removeTokenFromOwnerEnumeration: length - 1 underflows on an
\* empty list, and the write at tokenIndex is out of bounds beyond the end
removePanics(ot, oi, from, tokenId) ==
    \/ Len(ot[from]) = 0
    \/ oi[tokenId] > Len(ot[from]) - 1

\* variant: the last element is popped without the swap
removeTokenFromOwnerEnumeration_popOnly(ot, oi, from, tokenId) ==
    [ownerTokens |-> [ot EXCEPT ![from] = SubSeq(@, 1, Len(@) - 1)],
     ownerTokensIndex |-> [oi EXCEPT ![tokenId] = 0]]

\* variant: the index of the element moved into the gap is not updated
removeTokenFromOwnerEnumeration_noReindex(ot, oi, from, tokenId) ==
    LET lastTokenIndex == Len(ot[from]) - 1
        tokenIndex == oi[tokenId]
        swapped == IF tokenIndex # lastTokenIndex
                   THEN [ot[from] EXCEPT ![tokenIndex + 1] = ot[from][lastTokenIndex + 1]]
                   ELSE ot[from]
    IN [ownerTokens |-> [ot EXCEPT ![from] = SubSeq(swapped, 1, lastTokenIndex)],
        ownerTokensIndex |-> [oi EXCEPT ![tokenId] = 0]]

\* _removeTokenFromOwnerEnumeration (swap with the last element, then pop),
\* as a function from the two mappings to the two mappings; list positions
\* are 0-based in the contract and 1-based in a sequence
removeTokenFromOwnerEnumeration(ot, oi, from, tokenId) ==
    LET lastTokenIndex == Len(ot[from]) - 1
        tokenIndex == oi[tokenId]
        lastTokenId == ot[from][lastTokenIndex + 1]
        swapped == IF tokenIndex # lastTokenIndex
                   THEN [ot[from] EXCEPT ![tokenIndex + 1] = lastTokenId]
                   ELSE ot[from]
        moved == IF tokenIndex # lastTokenIndex
                 THEN [oi EXCEPT ![lastTokenId] = tokenIndex]
                 ELSE oi
    IN [ownerTokens |-> [ot EXCEPT ![from] = SubSeq(swapped, 1, lastTokenIndex)],
        ownerTokensIndex |-> [moved EXCEPT ![tokenId] = 0]]

\* variant: the token is put at the head of the list
addTokenToOwnerEnumeration_front(ot, oi, to, tokenId) ==
    [ownerTokens |-> [ot EXCEPT ![to] = <<tokenId>> \o @],
     ownerTokensIndex |-> [oi EXCEPT ![tokenId] = 0]]

\* _addTokenToOwnerEnumeration
addTokenToOwnerEnumeration(ot, oi, to, tokenId) ==
    [ownerTokens |-> [ot EXCEPT ![to] = Append(@, tokenId)],
     ownerTokensIndex |-> [oi EXCEPT ![tokenId] = Len(ot[to])]]

(* ------------------- PropertyV2: mintProperty called directly ---------- *)
\* mintProperty is public: any account may call it, the requires decide
mintPropertyCall(sender, to, name, propertyType, location, level, purchasePrice) ==
    /\ frame = NoFrame
    /\ LET res == mintPropertyCheck(sender, to, name, propertyType, location, level)
           tokenId == tokenIdCounter
       IN IF res = "ok"
          THEN /\ tokenIdCounter < MaxTokens
               /\ mintProperty(to, name, propertyType, location, level, purchasePrice)
               /\ last' = CallBy(sender, "mintProperty", "ok", tokenId)
          ELSE /\ last' = CallBy(sender, "mintProperty", res, NoToken)
               /\ UNCHANGED registryVars
    /\ UNCHANGED <<clockVars, adminOps, economyVars, guardVars, currencyVars, historyVars, serverVars>>

(* ----------------------------- PropertyV2: burn ------------------------ *)
\* variant: the capability of the caller is not tested
burnCheck_anyCaller(sender, tokenId) ==
    IF ~(owners[tokenId] # ZERO) THEN "Property does not exist"
    ELSE IF removePanics(ownerTokens, ownerTokensIndex, owners[tokenId], tokenId)
         THEN "Panic"
    ELSE "ok"

\* the require chain of burn, and the panic of the enumeration update
burnCheck(sender, tokenId) ==
    IF ~authorizedMinters[sender] THEN "Not authorized to burn"
    ELSE IF ~(owners[tokenId] # ZERO) THEN "Property does not exist"
    ELSE IF removePanics(ownerTokens, ownerTokensIndex, owners[tokenId], tokenId)
         THEN "Panic"
    ELSE "ok"

\* variant: the id counter is decremented with the supply
burnWrites_rewind(tokenId) ==
    LET e == removeTokenFromOwnerEnumeration(ownerTokens, ownerTokensIndex,
                                             owners[tokenId], tokenId)
    IN /\ ownerTokens' = e.ownerTokens
       /\ ownerTokensIndex' = e.ownerTokensIndex
       /\ properties' = [properties EXCEPT ![tokenId] = EmptyProperty]
       /\ owners' = [owners EXCEPT ![tokenId] = ZERO]
       /\ tokenIdCounter' = tokenIdCounter - 1
       /\ UNCHANGED <<propertyTypeConfigs, authorizedMinters, propertyMinted>>

\* the storage writes of a burn whose requires passed
burnWrites(tokenId) ==
    LET e == removeTokenFromOwnerEnumeration(ownerTokens, ownerTokensIndex,
                                             owners[tokenId], tokenId)
    IN /\ ownerTokens' = e.ownerTokens
       /\ ownerTokensIndex' = e.ownerTokensIndex
       /\ properties' = [properties EXCEPT ![tokenId] = EmptyProperty]
       /\ owners' = [owners EXCEPT ![tokenId] = ZERO]
       /\ UNCHANGED <<tokenIdCounter, propertyTypeConfigs, authorizedMinters,
                      propertyMinted>>

burn(sender, tokenId) ==
    /\ frame = NoFrame
    /\ LET res == burnCheck(sender, tokenId) IN
       /\ last' = CallBy(sender, "burn", res, tokenId)
       /\ IF res = "ok" THEN burnWrites(tokenId) ELSE UNCHANGED registryVars
    /\ UNCHANGED <<clockVars, adminOps, economyVars, guardVars, currencyVars, historyVars, serverVars>>

(* ------------------------- PropertyV2: transferFrom -------------------- *)
\* ERC721 transferFrom; no approvals are granted, so only the owner is
\* authorized to move a token
transferFromCheck(sender, from, to, tokenId) ==
    IF to = ZERO THEN "ERC721InvalidReceiver"
    ELSE IF owners[tokenId] = ZERO THEN "ERC721NonexistentToken"
    ELSE IF sender # owners[tokenId] THEN "ERC721InsufficientApproval"
    ELSE IF removePanics(ownerTokens, ownerTokensIndex, owners[tokenId], tokenId)
         THEN "Panic"
    ELSE IF owners[tokenId] # from THEN "ERC721IncorrectOwner"
    ELSE "ok"

\* _update on a transfer: ownership, lastTransferTime, then the enumeration
\* of the old owner and of the new one
transferFrom(sender, from, to, tokenId) ==
    /\ frame = NoFrame
    /\ LET res == transferFromCheck(sender, from, to, tokenId)
           removed == removeTokenFromOwnerEnumeration(ownerTokens, ownerTokensIndex,
                                                      from, tokenId)
           added == addTokenToOwnerEnumeration(removed.ownerTokens,
                                               removed.ownerTokensIndex, to, tokenId)
       IN /\ last' = CallBy(sender, "transferFrom", res, tokenId)
          /\ IF res = "ok"
             THEN /\ owners' = [owners EXCEPT ![tokenId] = to]
                  /\ properties' = [properties EXCEPT ![tokenId].lastTransferTime = now]
                  /\ ownerTokens' = added.ownerTokens
                  /\ ownerTokensIndex' = added.ownerTokensIndex
                  /\ UNCHANGED <<tokenIdCounter, propertyTypeConfigs, authorizedMinters,
                                 propertyMinted>>
             ELSE UNCHANGED registryVars
    /\ UNCHANGED <<clockVars, adminOps, economyVars, guardVars, currencyVars, historyVars, serverVars>>

(* ------------------------ PropertyV2: upgradeProperty ------------------ *)
\* variant: the maximum level is not tested
upgradePropertyCheck_noMax(sender, tokenId) ==
    IF ~(owners[tokenId] # ZERO) THEN "Property does not exist"
    ELSE IF ~(owners[tokenId] = sender) THEN "Not the owner"
    ELSE "ok"

\* the require chain of upgradeProperty
upgradePropertyCheck(sender, tokenId) ==
    IF ~(owners[tokenId] # ZERO) THEN "Property does not exist"
    ELSE IF ~(owners[tokenId] = sender) THEN "Not the owner"
    ELSE IF ~(properties[tokenId].level < MaxLevel) THEN "Property already at maximum level"
    ELSE "ok"

upgradeProperty(sender, tokenId) ==
    /\ frame = NoFrame
    /\ LET res == upgradePropertyCheck(sender, tokenId)
           property == properties[tokenId]
           config == propertyTypeConfigs[property.propertyType]
           level == property.level + 1
       IN /\ last' = CallBy(sender, "upgradeProperty", res, tokenId)
          /\ IF res = "ok"
             THEN properties' = [properties EXCEPT ![tokenId] =
                     [property EXCEPT !.level = level,
                                      !.statusPoints = config.baseStatusPoints * level,
                                      !.yieldRate = config.baseYieldRate + (level - 1) * 50]]
             ELSE UNCHANGED properties
    /\ UNCHANGED <<tokenIdCounter, owners, ownerTokens, ownerTokensIndex,
                   propertyTypeConfigs, authorizedMinters, propertyMinted>>
    /\ UNCHANGED <<clockVars, adminOps, economyVars, guardVars, currencyVars, historyVars, serverVars>>

(* ---------------------- PropertyV2: setAuthorizedMinter ---------------- *)
\* variant: onlyOwner is missing
setAuthorizedMinterCheck_open(sender) == "ok"

\* onlyOwner
setAuthorizedMinterCheck(sender) ==
    IF sender # Admin THEN "OwnableUnauthorizedAccount" ELSE "ok"

setAuthorizedMinter(sender, minter, authorized) ==
    /\ frame = NoFrame
    /\ LET res == setAuthorizedMinterCheck(sender) IN
       /\ last' = CallBy(sender, "setAuthorizedMinter", res, NoToken)
       /\ IF res = "ok"
          THEN authorizedMinters' = [authorizedMinters EXCEPT ![minter] = authorized]
          ELSE UNCHANGED authorizedMinters
    /\ UNCHANGED <<tokenIdCounter, properties, owners, ownerTokens, ownerTokensIndex,
                   propertyTypeConfigs, propertyMinted>>
    /\ UNCHANGED <<clockVars, adminOps, economyVars, guardVars, currencyVars, historyVars, serverVars>>

(* --------------------- EconomyV2: claimPropertyIncome ------------------ *)
\* variant: the bonus is not capped
HoldingBonus_uncapped(baseIncome, propertyAge) ==
    (baseIncome * holdingBonusRate * propertyAge) \div BpsDenominator

\* holdingBonus, capped at maxBonus
HoldingBonus(baseIncome, propertyAge) ==
    LET holdingBonus == (baseIncome * holdingBonusRate * propertyAge) \div BpsDenominator
        maxBonus == (baseIncome * maxHoldingBonus) \div BpsDenominator
    IN IF holdingBonus > maxBonus THEN maxBonus ELSE holdingBonus

\* daysSinceLastClaim
\* variant: a started day counts as a whole day
DaysSinceLastClaim_roundUp(tokenId) ==
    (now - lastIncomeClaimTime[tokenId] + Day - 1) \div Day

DaysSinceLastClaim(tokenId) == (now - lastIncomeClaimTime[tokenId]) \div Day

\* totalIncome of claimPropertyIncome
TotalIncome(tokenId) ==
    LET baseIncome == baseIncomeRate * DaysSinceLastClaim(tokenId)
        propertyAge == (now - properties[tokenId].createdAt) \div Day
        levelMultiplier == 100 + (properties[tokenId].level - 1) * 10
    IN ((baseIncome + HoldingBonus(baseIncome, propertyAge)) * levelMultiplier) \div 100

\* variant: the waiting period is not required
claimPropertyIncomeCheck_noWait(sender, tokenId, mintFault) ==
    IF entered THEN "ReentrancyGuardReentrantCall"
    ELSE IF owners[tokenId] = ZERO THEN "ERC721NonexistentToken"
    ELSE IF ~(owners[tokenId] = sender) THEN "Not property owner"
    ELSE IF ~(lastIncomeClaimTime[tokenId] > 0) THEN "Property not eligible for income"
    ELSE IF mintFault = "mint" THEN "LIFE mint failed"
    ELSE "ok"

\* nonReentrant, the requires of claimPropertyIncome (ownerOf reverts on an
\* asset that does not exist), then the external lifeToken.mint
claimPropertyIncomeCheck(sender, tokenId, mintFault) ==
    IF entered THEN "ReentrancyGuardReentrantCall"
    ELSE IF owners[tokenId] = ZERO THEN "ERC721NonexistentToken"
    ELSE IF ~(owners[tokenId] = sender) THEN "Not property owner"
    ELSE IF ~(lastIncomeClaimTime[tokenId] > 0) THEN "Property not eligible for income"
    ELSE IF ~(now > lastIncomeClaimTime[tokenId] + Day) THEN "Income not available yet"
    ELSE IF mintFault = "mint" THEN "LIFE mint failed"
    ELSE "ok"

claimPropertyIncome(sender, tokenId, mintFault) ==
    /\ frame = NoFrame
    /\ LET res == claimPropertyIncomeCheck(sender, tokenId, mintFault)
           totalIncome == TotalIncome(tokenId)
       IN /\ last' = CallBy(sender, "claimPropertyIncome", res, tokenId)
          /\ IF res = "ok"
             THEN /\ lastIncomeClaimTime' = [lastIncomeClaimTime EXCEPT ![tokenId] = now]
                  /\ lifeBalance' = [lifeBalance EXCEPT ![sender] = @ + totalIncome]
                  /\ totalIncomeEarned' = [totalIncomeEarned EXCEPT ![sender] = @ + totalIncome]
                  /\ incomeClaimed' = [incomeClaimed EXCEPT ![tokenId] = Append(@, totalIncome)]
                  /\ incomeDays' = [incomeDays EXCEPT ![tokenId] =
                                       Append(@, DaysSinceLastClaim(tokenId))]
             ELSE UNCHANGED <<lastIncomeClaimTime, lifeBalance, totalIncomeEarned,
                              incomeClaimed, incomeDays>>
    /\ UNCHANGED <<clockVars, adminOps, propertyPrices, pendingPayments, userNonce,
                   totalPurchases, totalSpentLife, totalSpentWld, feeVars,
                   rateVars, guardVars, registryVars, wldBalance, issued, cancelled,
                   completions, mintOrigin, serverVars>>

(* -------------------- EconomyV2: sellPropertyToContract ---------------- *)
\* variant: the full purchase price is paid back
BuybackPrice_full(tokenId) == properties[tokenId].purchasePrice

\* buybackPrice
BuybackPrice(tokenId) ==
    (properties[tokenId].purchasePrice * buybackPercentage) \div BpsDenominator

\* variant: a failure of lifeToken.mint is swallowed, the sale goes through
\* without the credit
sellPropertyToContractCheck_uncheckedCredit(sender, tokenId, mintFault) ==
    IF entered THEN "ReentrancyGuardReentrantCall"
    ELSE IF owners[tokenId] = ZERO THEN "ERC721NonexistentToken"
    ELSE IF ~(owners[tokenId] = sender) THEN "Not property owner"
    ELSE burnCheck(Economy, tokenId)

\* nonReentrant, the require of sellPropertyToContract, then its external
\* calls in source order: propertyContract.burn, lifeToken.mint
sellPropertyToContractCheck(sender, tokenId, mintFault) ==
    IF entered THEN "ReentrancyGuardReentrantCall"
    ELSE IF owners[tokenId] = ZERO THEN "ERC721NonexistentToken"
    ELSE IF ~(owners[tokenId] = sender) THEN "Not property owner"
    ELSE IF burnCheck(Economy, tokenId) # "ok" THEN burnCheck(Economy, tokenId)
    ELSE IF mintFault = "mint" THEN "LIFE mint failed"
    ELSE "ok"

\* variant: the sale takes the purchase back out of the seller's statistics
sellPropertyToContract_refundStats(sender, tokenId, mintFault) ==
    /\ frame = NoFrame
    /\ LET res == sellPropertyToContractCheck(sender, tokenId, mintFault)
           credit == IF mintFault = "mint" THEN 0 ELSE BuybackPrice(tokenId)
       IN /\ last' = CallBy(sender, "sellPropertyToContract", res, tokenId)
          /\ IF res = "ok"
             THEN /\ burnWrites(tokenId)
                  /\ lifeBalance' = [lifeBalance EXCEPT ![sender] = @ + credit]
                  /\ totalPurchases' = [totalPurchases EXCEPT ![sender] = @ - 1]
             ELSE UNCHANGED <<registryVars, lifeBalance, totalPurchases>>
    /\ UNCHANGED <<clockVars, adminOps, propertyPrices, pendingPayments, userNonce,
                   totalSpentLife, totalSpentWld, lastIncomeClaimTime, totalIncomeEarned,
                   feeVars, rateVars, guardVars, wldBalance, historyVars, serverVars>>

sellPropertyToContract(sender, tokenId, mintFault) ==
    /\ frame = NoFrame
    /\ LET res == sellPropertyToContractCheck(sender, tokenId, mintFault)
           credit == IF mintFault = "mint" THEN 0 ELSE BuybackPrice(tokenId)
       IN /\ last' = CallBy(sender, "sellPropertyToContract", res, tokenId)
          /\ IF res = "ok"
             THEN /\ burnWrites(tokenId)
                  /\ lifeBalance' = [lifeBalance EXCEPT ![sender] = @ + credit]
             ELSE UNCHANGED <<registryVars, lifeBalance>>
    /\ UNCHANGED <<clockVars, adminOps, economyVars, guardVars, wldBalance, historyVars, serverVars>>

(* ------------- EconomyV2: claim and sell-back, call by call ------------ *)
\* claimPropertyIncome and sellPropertyToContract with their external credit
\* call lifeToken.mint as a point where other calls can run: the call up to
\* the credit, calls made from inside the credit, and the return.

\* the storage a revert of the suspended call restores
Snapshot ==
    [lastIncomeClaimTime |-> lastIncomeClaimTime, lifeBalance |-> lifeBalance,
     totalIncomeEarned |-> totalIncomeEarned, properties |-> properties,
     owners |-> owners, ownerTokens |-> ownerTokens,
     ownerTokensIndex |-> ownerTokensIndex, incomeClaimed |-> incomeClaimed,
     incomeDays |-> incomeDays]

\* the frame of a call suspended in lifeToken.mint(sender, amount)
CreditFrame(op, sender, tokenId, amount) ==
    [op |-> op, id |-> NoId, sender |-> sender, tokenId |-> tokenId,
     amount |-> amount, undo |-> Snapshot]

\* the observation of a call made from inside the credit call
NestedCallBy(sender, op, result, tokenId) ==
    [op |-> op, id |-> NoId, result |-> result, tokenId |-> tokenId,
     nested |-> TRUE, sender |-> sender]

\* variant: the last-claim time is written after the credit call
MarkClaimed_late(tokenId) == lastIncomeClaimTime

\* lastIncomeClaimTime[tokenId] = block.timestamp
MarkClaimed(tokenId) == [lastIncomeClaimTime EXCEPT ![tokenId] = now]

\* claimPropertyIncome up to the external call lifeToken.mint
claimPropertyIncomeEnter(sender, tokenId) ==
    /\ frame = NoFrame
    /\ LET res == claimPropertyIncomeCheck(sender, tokenId, "none") IN
       IF res = "ok"
       THEN /\ lastIncomeClaimTime' = MarkClaimed(tokenId)
            /\ entered' = TRUE
            /\ frame' = CreditFrame("claimPropertyIncome", sender, tokenId,
                                    TotalIncome(tokenId))
            /\ last' = CallBy(sender, "claimPropertyIncome", "in mint", tokenId)
       ELSE /\ last' = CallBy(sender, "claimPropertyIncome", res, tokenId)
            /\ UNCHANGED <<lastIncomeClaimTime, guardVars>>
    /\ UNCHANGED <<clockVars, adminOps, propertyPrices, pendingPayments, userNonce,
                   statsVars, feeVars, rateVars, registryVars, currencyVars,
                   historyVars, serverVars>>

\* claimPropertyIncome from the return of lifeToken.mint to its end; a mint
\* that reverts reverts the whole call
claimPropertyIncomeReturn(mintFault) ==
    /\ frame.op = "claimPropertyIncome"
    /\ IF mintFault = "none"
       THEN /\ lifeBalance' = [lifeBalance EXCEPT ![frame.sender] = @ + frame.amount]
            /\ totalIncomeEarned' = [totalIncomeEarned EXCEPT ![frame.sender] = @ + frame.amount]
            /\ incomeClaimed' = [incomeClaimed EXCEPT ![frame.tokenId] =
                                    Append(@, frame.amount)]
            /\ incomeDays' = [incomeDays EXCEPT ![frame.tokenId] =
                  Append(@, (now - frame.undo.lastIncomeClaimTime[frame.tokenId]) \div Day)]
            /\ last' = CallBy(frame.sender, "claimPropertyIncome", "ok", frame.tokenId)
            /\ UNCHANGED <<lastIncomeClaimTime, properties, owners, ownerTokens,
                           ownerTokensIndex>>
       ELSE /\ lastIncomeClaimTime' = frame.undo.lastIncomeClaimTime
            /\ lifeBalance' = frame.undo.lifeBalance
            /\ totalIncomeEarned' = frame.undo.totalIncomeEarned
            /\ properties' = frame.undo.properties
            /\ owners' = frame.undo.owners
            /\ ownerTokens' = frame.undo.ownerTokens
            /\ ownerTokensIndex' = frame.undo.ownerTokensIndex
            /\ incomeClaimed' = frame.undo.incomeClaimed
            /\ incomeDays' = frame.undo.incomeDays
            /\ last' = CallBy(frame.sender, "claimPropertyIncome", "LIFE mint failed",
                              frame.tokenId)
    /\ entered' = FALSE
    /\ frame' = NoFrame
    /\ UNCHANGED <<clockVars, adminOps, propertyPrices, pendingPayments, userNonce,
                   totalPurchases, totalSpentLife, totalSpentWld, feeVars,
                   rateVars, tokenIdCounter, propertyTypeConfigs, authorizedMinters,
                   propertyMinted, wldBalance, issued, cancelled, completions, mintOrigin, serverVars>>

\* sellPropertyToContract up to the external call lifeToken.mint: the burn
\* has been made
sellPropertyToContractEnter(sender, tokenId) ==
    /\ frame = NoFrame
    /\ LET res == sellPropertyToContractCheck(sender, tokenId, "none") IN
       IF res = "ok"
       THEN /\ burnWrites(tokenId)
            /\ entered' = TRUE
            /\ frame' = CreditFrame("sellPropertyToContract", sender, tokenId,
                                    BuybackPrice(tokenId))
            /\ last' = CallBy(sender, "sellPropertyToContract", "in mint", tokenId)
       ELSE /\ last' = CallBy(sender, "sellPropertyToContract", res, tokenId)
            /\ UNCHANGED <<registryVars, guardVars>>
    /\ UNCHANGED <<clockVars, adminOps, economyVars, currencyVars, historyVars, serverVars>>

\* sellPropertyToContract from the return of lifeToken.mint to its end
sellPropertyToContractReturn(mintFault) ==
    /\ frame.op = "sellPropertyToContract"
    /\ IF mintFault = "none"
       THEN /\ lifeBalance' = [lifeBalance EXCEPT ![frame.sender] = @ + frame.amount]
            /\ last' = CallBy(frame.sender, "sellPropertyToContract", "ok", frame.tokenId)
            /\ UNCHANGED <<lastIncomeClaimTime, totalIncomeEarned, properties, owners,
                           ownerTokens, ownerTokensIndex, incomeClaimed, incomeDays>>
       ELSE /\ lastIncomeClaimTime' = frame.undo.lastIncomeClaimTime
            /\ lifeBalance' = frame.undo.lifeBalance
            /\ totalIncomeEarned' = frame.undo.totalIncomeEarned
            /\ properties' = frame.undo.properties
            /\ owners' = frame.undo.owners
            /\ ownerTokens' = frame.undo.ownerTokens
            /\ ownerTokensIndex' = frame.undo.ownerTokensIndex
            /\ incomeClaimed' = frame.undo.incomeClaimed
            /\ incomeDays' = frame.undo.incomeDays
            /\ last' = CallBy(frame.sender, "sellPropertyToContract", "LIFE mint failed",
                              frame.tokenId)
    /\ entered' = FALSE
    /\ frame' = NoFrame
    /\ UNCHANGED <<clockVars, adminOps, propertyPrices, pendingPayments, userNonce,
                   totalPurchases, totalSpentLife, totalSpentWld, feeVars,
                   rateVars, tokenIdCounter, propertyTypeConfigs, authorizedMinters,
                   propertyMinted, wldBalance, issued, cancelled, completions, mintOrigin, serverVars>>

\* a claimPropertyIncome call issued from inside the credit call of a
\* suspended claim or sell-back (the whole nested call runs before the credit
\* returns)
reenterClaimPropertyIncome(sender, tokenId) ==
    /\ frame.op \in {"claimPropertyIncome", "sellPropertyToContract"}
    /\ LET res == claimPropertyIncomeCheck(sender, tokenId, "none")
           totalIncome == TotalIncome(tokenId)
       IN /\ last' = NestedCallBy(sender, "claimPropertyIncome", res, tokenId)
          /\ IF res = "ok"
             THEN /\ lastIncomeClaimTime' = MarkClaimed(tokenId)
                  /\ lifeBalance' = [lifeBalance EXCEPT ![sender] = @ + totalIncome]
                  /\ totalIncomeEarned' = [totalIncomeEarned EXCEPT ![sender] = @ + totalIncome]
                  /\ incomeClaimed' = [incomeClaimed EXCEPT ![tokenId] = Append(@, totalIncome)]
                  /\ incomeDays' = [incomeDays EXCEPT ![tokenId] =
                                       Append(@, DaysSinceLastClaim(tokenId))]
             ELSE UNCHANGED <<lastIncomeClaimTime, lifeBalance, totalIncomeEarned,
                              incomeClaimed, incomeDays>>
    /\ UNCHANGED <<clockVars, adminOps, propertyPrices, pendingPayments, userNonce,
                   totalPurchases, totalSpentLife, totalSpentWld, feeVars,
                   rateVars, guardVars, registryVars, wldBalance, issued, cancelled,
                   completions, mintOrigin, serverVars>>

\* a sellPropertyToContract call issued from inside the credit call of a
\* suspended claim or sell-back
reenterSellPropertyToContract(sender, tokenId) ==
    /\ frame.op \in {"claimPropertyIncome", "sellPropertyToContract"}
    /\ LET res == sellPropertyToContractCheck(sender, tokenId, "none") IN
       /\ last' = NestedCallBy(sender, "sellPropertyToContract", res, tokenId)
       /\ IF res = "ok"
          THEN /\ burnWrites(tokenId)
               /\ lifeBalance' = [lifeBalance EXCEPT ![sender] = @ + BuybackPrice(tokenId)]
          ELSE UNCHANGED <<registryVars, lifeBalance>>
    /\ UNCHANGED <<clockVars, adminOps, economyVars, guardVars, wldBalance, historyVars, serverVars>>

(* ---------------------- EconomyV2: setBuybackPercentage ---------------- *)
\* percentages the admin passes: one whose buy-back price truncates, and one
\* above 100%
BuybackChoices == {3333, 10001}

setBuybackPercentageCheck(percentage) ==
    IF ~(percentage <= 10000) THEN "Percentage cannot exceed 100%" ELSE "ok"

\* onlyOwner: the admin is the only caller modelled
setBuybackPercentage(percentage) ==
    /\ frame = NoFrame
    /\ adminOps < MaxAdminOps
    /\ LET res == setBuybackPercentageCheck(percentage) IN
       /\ last' = Call("setBuybackPercentage", NoId, res, NoToken, FALSE)
       /\ IF res = "ok"
          THEN adminOps' = adminOps + 1 /\ buybackPercentage' = percentage
          ELSE UNCHANGED <<adminOps, buybackPercentage>>
    /\ UNCHANGED <<clockVars, propertyPrices, pendingPayments, userNonce, statsVars,
                   lastIncomeClaimTime, feeVars, baseIncomeRate,
                   holdingBonusRate, maxHoldingBonus, guardVars, registryVars,
                   currencyVars, historyVars, serverVars>>

(* ------------------------- EconomyV2: setIncomeRates ------------------- *)
\* onlyOwner: the admin is the only caller modelled
setIncomeRates(base, bonus, maxBonus) ==
    /\ frame = NoFrame
    /\ adminOps < MaxAdminOps
    /\ adminOps' = adminOps + 1
    /\ baseIncomeRate' = base
    /\ holdingBonusRate' = bonus
    /\ maxHoldingBonus' = maxBonus
    /\ last' = Call("setIncomeRates", NoId, "ok", NoToken, FALSE)
    /\ UNCHANGED <<clockVars, propertyPrices, pendingPayments, userNonce, statsVars,
                   lastIncomeClaimTime, feeVars, buybackPercentage,
                   guardVars, registryVars, currencyVars, historyVars, serverVars>>

(* ---------------------- PropertyV2: setPropertyTypeConfig -------------- *)
\* type configurations the admin installs with setPropertyTypeConfig: new
\* base values, and the removal of the type
TypeConfigChoices ==
    { PropertyTypeConfig(7, 11, TRUE), PropertyTypeConfig(0, 0, FALSE) }

\* onlyOwner: the admin is the only caller modelled
setPropertyTypeConfig(propertyType, config) ==
    /\ frame = NoFrame
    /\ adminOps < MaxAdminOps
    /\ adminOps' = adminOps + 1
    /\ propertyTypeConfigs' = [propertyTypeConfigs EXCEPT ![propertyType] = config]
    /\ last' = Call("setPropertyTypeConfig", NoId, "ok", NoToken, FALSE)
    /\ UNCHANGED <<tokenIdCounter, properties, owners, ownerTokens, ownerTokensIndex,
                   authorizedMinters, propertyMinted>>
    /\ UNCHANGED <<clockVars, economyVars, guardVars, currencyVars, historyVars, serverVars>>

(* ------------------- EconomyV2: setFees, setTreasury, setDevWallet ----- *)
\* fee pairs <<treasuryFee, devFee>> a caller passes: the 10% limit exactly,
\* one basis point above it, and no fees
FeeChoices == { <<600, 400>>, <<600, 401>>, <<0, 0>> }
\* addresses a caller passes for the treasury and the dev wallet
AddressChoices == {ZERO, "u2"}

\* variant: each fee is bounded on its own
setFeesCheck_each(_treasuryFee, _devFee) ==
    IF ~(_treasuryFee <= 1000 /\ _devFee <= 1000)
    THEN "Total fees cannot exceed 10%" ELSE "ok"

setFeesCheck(_treasuryFee, _devFee) ==
    IF ~(_treasuryFee + _devFee <= 1000) THEN "Total fees cannot exceed 10%" ELSE "ok"

setFees(_treasuryFee, _devFee) ==
    /\ frame = NoFrame
    /\ LET res == setFeesCheck(_treasuryFee, _devFee) IN
       /\ res = "ok" => adminOps < MaxAdminOps
       /\ last' = Call("setFees", NoId, res, NoToken, FALSE)
       /\ IF res = "ok"
          THEN /\ adminOps' = adminOps + 1
               /\ treasuryFee' = _treasuryFee
               /\ devFee' = _devFee
               /\ configEvents' = Append(configEvents, "FeesUpdated")
          ELSE UNCHANGED <<adminOps, treasuryFee, devFee, configEvents>>
    /\ UNCHANGED <<clockVars, propertyPrices, pendingPayments, userNonce, statsVars,
                   lastIncomeClaimTime, treasury, devWallet, rateVars, guardVars,
                   registryVars, currencyVars, historyVars, serverVars>>

setTreasuryCheck(_treasury) ==
    IF ~(_treasury # ZERO) THEN "Invalid treasury address" ELSE "ok"

setTreasury(_treasury) ==
    /\ frame = NoFrame
    /\ LET res == setTreasuryCheck(_treasury) IN
       /\ res = "ok" => adminOps < MaxAdminOps
       /\ last' = Call("setTreasury", NoId, res, NoToken, FALSE)
       /\ IF res = "ok"
          THEN /\ adminOps' = adminOps + 1
               /\ treasury' = _treasury
               /\ configEvents' = Append(configEvents, "TreasuryUpdated")
          ELSE UNCHANGED <<adminOps, treasury, configEvents>>
    /\ UNCHANGED <<clockVars, propertyPrices, pendingPayments, userNonce, statsVars,
                   lastIncomeClaimTime, treasuryFee, devFee, devWallet, rateVars,
                   guardVars, registryVars, currencyVars, historyVars, serverVars>>

setDevWalletCheck(_devWallet) ==
    IF ~(_devWallet # ZERO) THEN "Invalid dev wallet address" ELSE "ok"

setDevWallet(_devWallet) ==
    /\ frame = NoFrame
    /\ LET res == setDevWalletCheck(_devWallet) IN
       /\ res = "ok" => adminOps < MaxAdminOps
       /\ last' = Call("setDevWallet", NoId, res, NoToken, FALSE)
       /\ IF res = "ok"
          THEN /\ adminOps' = adminOps + 1
               /\ devWallet' = _devWallet
               /\ configEvents' = Append(configEvents, "DevWalletUpdated")
          ELSE UNCHANGED <<adminOps, devWallet, configEvents>>
    /\ UNCHANGED <<clockVars, propertyPrices, pendingPayments, userNonce, statsVars,
                   lastIncomeClaimTime, treasuryFee, devFee, treasury, rateVars,
                   guardVars, registryVars, currencyVars, historyVars, serverVars>>

(* ------------------------------ onlyOwner ------------------------------ *)
\* principals that call the admin functions: the owner and a user
AdminCallers == {Admin, "u2"}

\* variant: the modifier lets every caller through
onlyOwnerCheck_open(sender) == "ok"

\* OwnableUpgradeable._checkOwner
onlyOwnerCheck(sender) ==
    IF sender # Admin THEN "OwnableUnauthorizedAccount" ELSE "ok"

\* a function with the onlyOwner modifier called by sender: the body runs for
\* the owner, any other caller's call reverts
onlyOwner(sender, op, body) ==
    IF onlyOwnerCheck(sender) = "ok"
    THEN body
    ELSE /\ frame = NoFrame
         /\ last' = CallBy(sender, op, onlyOwnerCheck(sender), NoToken)
         /\ UNCHANGED <<clockVars, adminOps, economyVars, guardVars, registryVars,
                        currencyVars, historyVars, serverVars>>

(* ------------------ server: initiate-payment and confirm-payment ------- *)
\* the contracts' state and the observation of their last call
chainVars == <<clockVars, adminOps, economyVars, guardVars, registryVars,
               currencyVars, last, historyVars>>

\* the record initiate-payment stores under the reference id
PaymentData(id) ==
    [id |-> id, propertyType |-> "house", paymentToken |-> "WLD", amount |-> 10,
     userAddress |-> "u1", propertyName |-> ShortName, location |-> Place,
     level |-> 1, status |-> "initiated"]

\* paymentReferences.set(id, data)
storePaymentReference(id, data) ==
    [i \in DOMAIN paymentReferences \cup {id} |->
        IF i = id THEN data ELSE paymentReferences[i]]

\* POST of initiate-payment: a fresh reference is generated and stored
initiatePaymentPOST ==
    /\ uuids < MaxReferences
    /\ uuids' = uuids + 1
    /\ paymentReferences' = storePaymentReference(uuids + 1, PaymentData(uuids + 1))
    /\ UNCHANGED <<chainVars, requests, purchaseCalls>>

\* request bodies of confirm-payment: a payload with a reference that was,
\* will be or (0) never is generated, and a body that is not JSON
Bodies == [ok : {TRUE}, reference : 0..MaxReferences] \cup
          {[ok |-> FALSE, reference |-> 0]}
\* what the portal's fetch does: a response that is ok, or a response that
\* is not ok or no response at all (both throw inside the try)
FetchOutcomes == {"ok", "error"}
\* the transaction the portal returns for a payload carrying reference
Transactions(reference) ==
    { [reference |-> reference, status |-> "mined"],
      [reference |-> reference, status |-> "failed"],
      [reference |-> 0 - 1, status |-> "mined"] }
\* an awaited call returns or throws
CallFaults == {"none", "throws"}

\* POST of confirm-payment up to its first await, req.json()
confirmPaymentPOST(r, body) ==
    /\ requests[r].pc = "idle"
    /\ requests' = [requests EXCEPT ![r] = [@ EXCEPT !.pc = "req.json", !.body = body]]
    /\ UNCHANGED <<chainVars, paymentReferences, purchaseCalls, uuids>>

\* from the return of req.json() to the fetch of the portal: the lookup of
\* the reference
reqJsonReturn(r) ==
    /\ requests[r].pc = "req.json"
    /\ LET q == requests[r] IN
       requests' = [requests EXCEPT ![r] =
          IF ~q.body.ok
          THEN [q EXCEPT !.pc = "done",
                         !.response = [status |-> 500,
                                       error |-> "Failed to confirm payment"]]
          ELSE IF q.body.reference \in DOMAIN paymentReferences
          THEN [q EXCEPT !.pc = "fetch",
                         !.paymentData = paymentReferences[q.body.reference]]
          ELSE [q EXCEPT !.pc = "done",
                         !.response = [status |-> 400, success |-> FALSE,
                                       error |-> "Reference mismatch"]]]
    /\ UNCHANGED <<chainVars, paymentReferences, purchaseCalls, uuids>>

\* the response of the catch (verificationError) block
OptimisticResponse ==
    [status |-> 200, success |-> TRUE,
     message |-> "Payment accepted (verification API unavailable)"]

\* from the return of fetch to verifyResponse.json()
fetchReturn(r, outcome) ==
    /\ requests[r].pc = "fetch"
    /\ requests' = [requests EXCEPT ![r] =
          IF outcome = "ok"
          THEN [@ EXCEPT !.pc = "verifyResponse.json"]
          ELSE [@ EXCEPT !.pc = "done", !.response = OptimisticResponse]]
    /\ UNCHANGED <<chainVars, paymentReferences, purchaseCalls, uuids>>

\* from the return of verifyResponse.json() to the dynamic imports: the test
\* of the transaction; transaction = Nothing stands for a body that does not
\* parse
verifyResponseJsonReturn(r, transaction) ==
    /\ requests[r].pc = "verifyResponse.json"
    /\ LET q == requests[r] IN
       requests' = [requests EXCEPT ![r] =
          IF transaction = Nothing
          THEN [q EXCEPT !.pc = "done", !.response = OptimisticResponse]
          ELSE IF transaction.reference = q.body.reference /\ transaction.status # "failed"
          THEN [q EXCEPT !.pc = "import", !.transaction = transaction]
          ELSE [q EXCEPT !.pc = "done", !.transaction = transaction,
                         !.response = [status |-> 200, success |-> FALSE,
                                       error |-> "Payment verification failed"]]]
    /\ UNCHANGED <<chainVars, paymentReferences, purchaseCalls, uuids>>

\* the response of the catch (contractError) block
PurchaseFailedResponse ==
    [status |-> 200, success |-> FALSE, error |-> "Property purchase failed"]

\* from the return of the two dynamic imports to the await of
\* economyContract.purchaseProperty: the purchase call is sent
importReturn(r, fault) ==
    /\ requests[r].pc = "import"
    /\ IF fault = "none"
       THEN /\ purchaseCalls' = Append(purchaseCalls, requests[r].paymentData.id)
            /\ requests' = [requests EXCEPT ![r].pc = "purchaseProperty"]
       ELSE /\ requests' = [requests EXCEPT ![r] =
                  [@ EXCEPT !.pc = "done", !.response = PurchaseFailedResponse]]
            /\ UNCHANGED purchaseCalls
    /\ UNCHANGED <<chainVars, paymentReferences, uuids>>

\* from the return of purchaseProperty to the await of tx.wait()
purchasePropertyReturn(r, fault) ==
    /\ requests[r].pc = "purchaseProperty"
    /\ requests' = [requests EXCEPT ![r] =
          IF fault = "none"
          THEN [@ EXCEPT !.pc = "tx.wait"]
          ELSE [@ EXCEPT !.pc = "done", !.response = PurchaseFailedResponse]]
    /\ UNCHANGED <<chainVars, paymentReferences, purchaseCalls, uuids>>

\* from the return of tx.wait() to the response: the reference is deleted
txWaitReturn(r, fault) ==
    /\ requests[r].pc = "tx.wait"
    /\ LET q == requests[r] IN
       IF fault = "none"
       THEN /\ paymentReferences' =
                  [i \in DOMAIN paymentReferences \ {q.body.reference} |->
                      paymentReferences[i]]
            /\ requests' = [requests EXCEPT ![r] =
                  [q EXCEPT !.pc = "done",
                            !.response = [status |-> 200, success |-> TRUE,
                                          transactionStatus |-> q.transaction.status,
                                          propertyTxHash |-> "tx"]]]
       ELSE /\ requests' = [requests EXCEPT ![r] =
                  [q EXCEPT !.pc = "done", !.response = PurchaseFailedResponse]]
            /\ UNCHANGED paymentReferences
    /\ UNCHANGED <<chainVars, purchaseCalls, uuids>>

(* -------------------------- PropertyV2: getProperty -------------------- *)
getPropertyCheck(tokenId) ==
    IF ~(owners[tokenId] # ZERO) THEN "Property does not exist" ELSE "ok"

\* a view: it returns the stored metadata of an existing asset
getProperty(tokenId) ==
    /\ frame = NoFrame
    /\ LET res == getPropertyCheck(tokenId)
           prop == properties[tokenId]
       IN last' = Returned("getProperty", <<tokenId>>, res,
                           IF res = "ok"
                           THEN <<prop.name, prop.propertyType, prop.location, prop.level,
                                  prop.statusPoints, prop.yieldRate, prop.purchasePrice,
                                  prop.createdAt>>
                           ELSE <<>>)
    /\ UNCHANGED <<clockVars, adminOps, economyVars, guardVars, registryVars,
                   currencyVars, historyVars, serverVars>>

(* ---------------------- EconomyV2: getIncomeAvailable ------------------ *)
\* the early return of getIncomeAvailable
NothingAvailable(tokenId) ==
    \/ lastIncomeClaimTime[tokenId] = 0
    \/ now <= lastIncomeClaimTime[tokenId] + Day

\* past the early return the view calls propertyContract.getProperty, which
\* reverts on an asset that does not exist
getIncomeAvailableCheck(tokenId) ==
    IF NothingAvailable(tokenId) THEN "ok" ELSE getPropertyCheck(tokenId)

\* variant: the view opens the window at exactly one day
getIncomeAvailableReturn_atDay(tokenId) ==
    IF \/ lastIncomeClaimTime[tokenId] = 0
       \/ now < lastIncomeClaimTime[tokenId] + Day
    THEN 0
    ELSE LET daysSinceLastClaim == (now - lastIncomeClaimTime[tokenId]) \div Day
             baseIncome == baseIncomeRate * daysSinceLastClaim
             propertyAge == (now - properties[tokenId].createdAt) \div Day
             holdingBonus == (baseIncome * holdingBonusRate * propertyAge) \div 10000
             maxBonus == (baseIncome * maxHoldingBonus) \div 10000
             levelMultiplier == 100 + (properties[tokenId].level - 1) * 10
         IN ((baseIncome + (IF holdingBonus > maxBonus THEN maxBonus ELSE holdingBonus))
                * levelMultiplier) \div 100

\* the value getIncomeAvailable returns
getIncomeAvailableReturn(tokenId) ==
    IF NothingAvailable(tokenId)
    THEN 0
    ELSE LET daysSinceLastClaim == (now - lastIncomeClaimTime[tokenId]) \div Day
             baseIncome == baseIncomeRate * daysSinceLastClaim
             propertyAge == (now - properties[tokenId].createdAt) \div Day
             holdingBonus == (baseIncome * holdingBonusRate * propertyAge) \div 10000
             maxBonus == (baseIncome * maxHoldingBonus) \div 10000
             levelMultiplier == 100 + (properties[tokenId].level - 1) * 10
         IN ((baseIncome + (IF holdingBonus > maxBonus THEN maxBonus ELSE holdingBonus))
                * levelMultiplier) \div 100

\* a view: it reads the income state and the asset and writes nothing
getIncomeAvailable(tokenId) ==
    /\ frame = NoFrame
    /\ LET res == getIncomeAvailableCheck(tokenId)
       IN last' = Returned("getIncomeAvailable", <<tokenId>>, res,
                           IF res = "ok" THEN getIncomeAvailableReturn(tokenId) ELSE 0)
    /\ UNCHANGED <<clockVars, adminOps, economyVars, guardVars, registryVars,
                   currencyVars, historyVars, serverVars>>

(* ---------------------------- specification ---------------------------- *)
PaymentIds == issued \cup {UnknownId}

\* the payment life cycle: initiate, complete (with its external mint call),
\* cancel, the clock and the price table
Next ==
    \/ \E a \in LifecycleArgs :
          initiatePayment(a.sender, a.propertyType, a.name, a.location, a.level, a.useWLD)
    \/ \E caller \in Users, paymentId \in PaymentIds : completePayment(caller, paymentId)
    \/ completePaymentReturn
    \/ \E caller \in Users, paymentId \in PaymentIds : reenterCompletePayment(caller, paymentId)
    \/ \E caller \in Users, paymentId \in PaymentIds : cancelExpiredPayment(caller, paymentId)
    \/ \E propertyType \in ConfigurableTypes, price \in PriceChoices :
          setPropertyPrice(propertyType, price)
    \/ \E d \in Durations : AdvanceTime(d)

Spec == Init /\ [][Next]_vars

\* the two purchase entry points on every argument vector and the price
\* query, under every price table
NextPurchase ==
    \/ \E a \in CallArgs, useWLD \in BOOLEAN :
          initiatePayment(a.sender, a.propertyType, a.name, a.location, a.level, useWLD)
    \/ \E a \in CallArgs, tokenFault \in TokenFaults :
          purchasePropertyWithLife(a.sender, a.propertyType, a.name, a.location, a.level, tokenFault)
    \/ \E propertyType \in ConfigurableTypes, price \in PriceChoices :
          setPropertyPrice(propertyType, price)
    \/ \E q \in QueryArgs : calculatePropertyPrice(q[1], q[2])

SpecPurchase == Init /\ [][NextPurchase]_vars

\* the asset registry called directly: mint, burn, transfer, upgrade by any
\* account, and the admin's (or anyone's attempted) minter grants
NextRegistry ==
    \/ \E sender \in Callers, m \in RegistryArgs :
          mintPropertyCall(sender, m.to, m.name, m.propertyType, m.location, m.level,
                           RegistryPrice)
    \/ \E sender \in Callers, tokenId \in TokenIds : burn(sender, tokenId)
    \/ \E sender \in Users, to \in Users \cup {ZERO}, tokenId \in TokenIds :
          transferFrom(sender, sender, to, tokenId)
    \/ \E sender \in Users, tokenId \in TokenIds : upgradeProperty(sender, tokenId)
    \/ \E sender \in {Admin, "u2"}, authorized \in BOOLEAN :
          setAuthorizedMinter(sender, Economy, authorized)

SpecRegistry == Init /\ [][NextRegistry]_vars

\* income and buy-back of one asset, which comes from a completed payment;
\* the admin sets the income rates before the asset is minted and may revoke
\* and restore the ledger's minter capability
NextIncome ==
    \/ \E a \in IncomeArgs :
          /\ issued = {}
          /\ initiatePayment(a.sender, a.propertyType, a.name, a.location, a.level, a.useWLD)
    \/ \E paymentId \in issued : completePayment("u1", paymentId)
    \/ completePaymentReturn
    \/ \E paymentId \in issued : cancelExpiredPayment("u1", paymentId)
    \/ \E sender \in Users, tokenId \in IncomeTokens, mintFault \in MintFaults :
          claimPropertyIncome(sender, tokenId, mintFault)
    \/ \E sender \in Users, tokenId \in IncomeTokens, mintFault \in MintFaults :
          sellPropertyToContract(sender, tokenId, mintFault)
    \/ \E tokenId \in IncomeTokens : transferFrom("u1", "u1", "u2", tokenId)
    \/ \E authorized \in BOOLEAN : setAuthorizedMinter(Admin, Economy, authorized)
    \/ \E r \in IncomeRateChoices :
          tokenIdCounter = 0 /\ setIncomeRates(r[1], r[2], r[3])
    \/ \E tokenId \in IncomeTokens : getIncomeAvailable(tokenId)
    \/ \E d \in DayDurations : AdvanceTime(d)

SpecIncome == Init /\ [][NextIncome]_vars

\* the life of an asset after its direct purchase: upgrade, transfer, income
\* claim and buy-back by either user, the registry's view, and the admin's
\* change of the type configuration or of the buy-back percentage.  A second asset, bought before the clock
\* first advances, shares the owner lists: its only operation is one transfer.
AssetArgs == { PurchaseArgs("u1", "house", ShortName, Place, 9) }
AssetTokens == {0}
AssetDurations == {Hour, Day + 1}
NextAsset ==
    \/ \E a \in AssetArgs :
          /\ tokenIdCounter < 2
          /\ tokenIdCounter = 0 \/ ticks = 0
          /\ purchasePropertyWithLife(a.sender, a.propertyType, a.name, a.location,
                                      a.level, "none")
    \/ \E sender \in Users, tokenId \in AssetTokens : upgradeProperty(sender, tokenId)
    \/ \E sender \in Users, tokenId \in AssetTokens :
          \E to \in Users \ {sender} : transferFrom(sender, sender, to, tokenId)
    \/ transferFrom("u1", "u1", "u2", 1)
    \/ \E sender \in Users, tokenId \in AssetTokens :
          claimPropertyIncome(sender, tokenId, "none")
    \/ \E sender \in Users, tokenId \in AssetTokens :
          sellPropertyToContract(sender, tokenId, "none")
    \/ \E tokenId \in AssetTokens : getProperty(tokenId)
    \/ \E propertyType \in ConfigurableTypes, config \in TypeConfigChoices :
          setPropertyTypeConfig(propertyType, config)
    \/ \E percentage \in BuybackChoices : setBuybackPercentage(percentage)
    \/ \E d \in AssetDurations : AdvanceTime(d)

SpecAsset == Init /\ [][NextAsset]_vars

\* the admin functions of both contracts called by the owner and by a user,
\* and one purchase that pays its fees to the configured addresses
NextAdmin ==
    \/ \E sender \in AdminCallers, propertyType \in ConfigurableTypes,
          price \in PriceChoices :
          onlyOwner(sender, "setPropertyPrice", setPropertyPrice(propertyType, price))
    \/ \E sender \in AdminCallers, f \in FeeChoices :
          onlyOwner(sender, "setFees", setFees(f[1], f[2]))
    \/ \E sender \in AdminCallers, a \in AddressChoices :
          onlyOwner(sender, "setTreasury", setTreasury(a))
    \/ \E sender \in AdminCallers, a \in AddressChoices :
          onlyOwner(sender, "setDevWallet", setDevWallet(a))
    \/ \E sender \in AdminCallers, percentage \in BuybackChoices :
          onlyOwner(sender, "setBuybackPercentage", setBuybackPercentage(percentage))
    \/ \E sender \in AdminCallers, r \in IncomeRateChoices :
          onlyOwner(sender, "setIncomeRates", setIncomeRates(r[1], r[2], r[3]))
    \/ \E sender \in AdminCallers, authorized \in BOOLEAN :
          setAuthorizedMinter(sender, Economy, authorized)
    \/ \E sender \in AdminCallers, propertyType \in ConfigurableTypes,
          config \in TypeConfigChoices :
          onlyOwner(sender, "setPropertyTypeConfig",
                    setPropertyTypeConfig(propertyType, config))
    \/ \E a \in AssetArgs :
          /\ tokenIdCounter < 1
          /\ purchasePropertyWithLife(a.sender, a.propertyType, a.name, a.location,
                                      a.level, "none")

SpecAdmin == Init /\ [][NextAdmin]_vars

\* the two server routes: references are generated and stored, and
\* confirmation requests run interleaved at their await points
NextServer ==
    \/ initiatePaymentPOST
    \/ \E r \in Requests, body \in Bodies : confirmPaymentPOST(r, body)
    \/ \E r \in Requests : reqJsonReturn(r)
    \/ \E r \in Requests, outcome \in FetchOutcomes : fetchReturn(r, outcome)
    \/ \E r \in Requests :
          /\ requests[r].pc = "verifyResponse.json"
          /\ \E transaction \in Transactions(requests[r].body.reference) \cup {Nothing} :
                verifyResponseJsonReturn(r, transaction)
    \/ \E r \in Requests, fault \in CallFaults : importReturn(r, fault)
    \/ \E r \in Requests, fault \in CallFaults : purchasePropertyReturn(r, fault)
    \/ \E r \in Requests, fault \in CallFaults : txWaitReturn(r, fault)

SpecServer == Init /\ [][NextServer]_vars

\* claim and sell-back of one purchased asset with calls made from inside
\* their credit calls
NextReentry ==
    \/ \E a \in AssetArgs :
          /\ tokenIdCounter < 1
          /\ purchasePropertyWithLife(a.sender, a.propertyType, a.name, a.location,
                                      a.level, "none")
    \/ \E sender \in Users, tokenId \in AssetTokens : claimPropertyIncomeEnter(sender, tokenId)
    \/ \E mintFault \in MintFaults : claimPropertyIncomeReturn(mintFault)
    \/ \E sender \in Users, tokenId \in AssetTokens :
          sellPropertyToContractEnter(sender, tokenId)
    \/ \E mintFault \in MintFaults : sellPropertyToContractReturn(mintFault)
    \/ \E sender \in Users, tokenId \in AssetTokens :
          reenterClaimPropertyIncome(sender, tokenId)
    \/ \E sender \in Users, tokenId \in AssetTokens :
          reenterSellPropertyToContract(sender, tokenId)
    \/ \E tokenId \in AssetTokens : transferFrom("u1", "u1", "u2", tokenId)
    \/ \E d \in AssetDurations : AdvanceTime(d)

SpecReentry == Init /\ [][NextReentry]_vars

TypeOK ==
    /\ now \in Nat /\ ticks \in 0..MaxTicks
    /\ entered \in BOOLEAN
    /\ tokenIdCounter \in 0..MaxTokens
    /\ \A id \in DOMAIN pendingPayments : pendingPayments[id].buyer \in Users
    /\ \A a \in Accounts : lifeBalance[a] >= 0


(* ------------------------- vocabulary of the claims -------------------- *)
\* a record for id is stored
Exists(id) == Payment(id).buyer # ZERO
\* the completePayment call on id is suspended in its external mint call
InFlight(id) == frame.op = "completePayment" /\ frame.id = id
\* id was completed by a call that returned
Completed(id) == Payment(id).completed /\ ~InFlight(id)
\* number of completePayment calls on id that succeeded
Completions(id) == IF id \in DOMAIN completions THEN completions[id] ELSE 0
\* number of assets minted for id
MintCount(id) == Cardinality({t \in TokenIds : mintOrigin[t] = id})
\* the step just taken was a call of op on id
Called(op, id) == last'.op = op /\ last'.id = id
\* everything the ledger and the registry store, and the balances
storageVars == <<economyVars, registryVars, currencyVars>>

(* C1: completePayment(id) succeeds at most once.  Every completePayment(id)
   call made after a successful completion of id fails (a top-level call with
   "Payment already completed"), mints no asset and changes no storage; no id
   ever counts two successful completions. *)
C1_CompleteAtMostOnce ==
    [][\A id \in PaymentIds :
          /\ Completions(id)' <= 1
          /\ (Completions(id) >= 1 /\ Called("completePayment", id)) =>
                /\ last'.result \notin {"ok", "in mint"}
                /\ ~last'.nested => last'.result = "Payment already completed"
                /\ UNCHANGED <<storageVars, guardVars, historyVars>>]_vars

C1_Witness ==
    /\ last.op = "completePayment"
    /\ last.result = "Payment already completed"
    /\ Completions(last.id) = 1

(* C2: while completePayment(id) is inside its external mint call the record
   already carries completed = true; a completePayment issued from inside that
   call is rejected; at most one asset is ever minted per payment id. *)
C2_MarkThenAct ==
    /\ \A id \in PaymentIds :
          /\ InFlight(id) => Payment(id).completed
          /\ MintCount(id) <= 1
    /\ last.nested => last.result \notin {"ok", "in mint"}

C2_Witness ==
    /\ last.op = "completePayment" /\ last.nested
    /\ InFlight(last.id)
    /\ last.result # "ok"

(* C3 as stated: every completePayment(id) call on a stored record at a time
   now > createdAt + 1 hour fails with "Payment expired". *)
C3_AlwaysExpired ==
    [][\A id \in PaymentIds :
          (/\ Exists(id) /\ frame = NoFrame
           /\ now > Payment(id).timestamp + Hour
           /\ Called("completePayment", id)) =>
             last'.result = "Payment expired"]_vars

\* the record of id is stored, not completed, and its window has passed
ExpiredPending(id) ==
    /\ Exists(id) /\ ~Payment(id).completed
    /\ now > Payment(id).timestamp + Hour

(* C3 amended: for a stored record that is not completed, completePayment(id)
   at now > createdAt + 1 hour fails with "Payment expired", mints nothing and
   leaves assets, the record and UserStats unchanged; the record stays expired
   and uncompleted until a cancelExpiredPayment(id), which succeeds and removes
   the record. *)
C3_ExpiredThenCancel ==
    [][\A id \in PaymentIds : ExpiredPending(id) =>
          /\ Called("completePayment", id) =>
                /\ last'.result \notin {"ok", "in mint"}
                /\ ~last'.nested => last'.result = "Payment expired"
                /\ UNCHANGED <<storageVars, guardVars, historyVars>>
          /\ Called("cancelExpiredPayment", id) =>
                /\ last'.result = "ok"
                /\ id \notin DOMAIN pendingPayments'
          /\ ~Called("cancelExpiredPayment", id) => ExpiredPending(id)']_vars

C3_Witness ==
    /\ last.op = "completePayment" /\ last.result = "Payment expired"
    /\ ExpiredPending(last.id)
    /\ cancelExpiredPaymentCheck(last.id) = "ok"
    /\ tokenIdCounter > 0

\* the state of a payment id; a suspended completion has not left Initiated
Phase(id) ==
    IF ~Exists(id) THEN (IF id \in issued THEN "Cancelled" ELSE "None")
    ELSE IF Completed(id) THEN "Completed"
    ELSE IF now > Payment(id).timestamp + Hour THEN "Expired"
    ELSE "Initiated"

PhaseSteps ==
    { <<"None", "Initiated">>, <<"Initiated", "Completed">>,
      <<"Initiated", "Expired">>, <<"Expired", "Cancelled">> }

(* C4: a payment id moves only Initiated -> Completed or Initiated -> Expired
   -> Cancelled, and both ends are final: a completed record is never deleted
   or uncompleted, a cancelled id is never stored or completed again (a
   completePayment on it fails with "Payment not found"), and no id is both
   completed and deleted. *)
C4_PaymentStateMachine ==
    [][\A id \in PaymentIds \cup PaymentIds' :
          /\ Phase(id)' = Phase(id) \/ <<Phase(id), Phase(id)'>> \in PhaseSteps
          /\ (id \in cancelled) <=> (Phase(id) = "Cancelled")
          /\ ~(id \in cancelled' /\ Completions(id)' > 0)
          /\ (Completions(id) > 0) <=> (Phase(id) = "Completed")
          /\ (Phase(id) = "Cancelled" /\ Called("completePayment", id)) =>
                /\ last'.result \notin {"ok", "in mint"}
                /\ ~last'.nested => last'.result = "Payment not found"]_vars

C4_Witness ==
    /\ last.op = "completePayment" /\ last.result = "Payment not found"
    /\ Phase(last.id) = "Cancelled"
    /\ \E id \in issued : Phase(id) = "Completed"

(* C5: cancelExpiredPayment(id) succeeds, whoever calls, exactly when a record
   for id is stored, not completed and now > createdAt + 1 hour; then exactly
   that record is deleted; otherwise nothing changes; a record is removed only
   by such a call, so never before it expires. *)
C5_CancelOnlyExpired ==
    [][\A id \in PaymentIds :
          /\ Called("cancelExpiredPayment", id) =>
                /\ (last'.result = "ok") <=>
                      (/\ id \in DOMAIN pendingPayments
                       /\ ~pendingPayments[id].completed
                       /\ now > pendingPayments[id].timestamp + Hour)
                /\ last'.result = "ok" =>
                      /\ DOMAIN pendingPayments' = DOMAIN pendingPayments \ {id}
                      /\ \A i \in DOMAIN pendingPayments' : pendingPayments'[i] = pendingPayments[i]
                /\ last'.result # "ok" => UNCHANGED pendingPayments
                /\ UNCHANGED <<propertyPrices, userNonce, statsVars, lastIncomeClaimTime,
                               registryVars, currencyVars, guardVars>>
          /\ (id \in DOMAIN pendingPayments /\ id \notin DOMAIN pendingPayments') =>
                /\ Called("cancelExpiredPayment", id)
                /\ now > pendingPayments[id].timestamp + Hour]_vars

C5_Witness ==
    /\ last.op = "cancelExpiredPayment" /\ last.result = "ok"
    /\ now = last.id[3] + Hour + 1
    /\ last.id \notin DOMAIN pendingPayments


\* the price of a purchase in the primary currency, as the ledger states it
DirectPrice(a) ==
    (propertyPrices[a.propertyType].lifePrice * (100 + (a.level - 1) * 20)) \div 100

\* the debit, a fee transfer or the mint of a direct purchase fails
PurchaseStepFails(a, tokenFault) ==
    \/ lifeBalance[a.sender] < DirectPrice(a)
    \/ tokenFault = "debit"
    \/ tokenFault = "treasury" /\ (DirectPrice(a) * treasuryFee) \div 10000 > 0
    \/ tokenFault = "dev" /\ (DirectPrice(a) * devFee) \div 10000 > 0
    \/ mintPropertyCheck(Economy, a.sender, a.name, a.propertyType, a.location, a.level) # "ok"

(* C6: purchasePropertyWithLife is all-or-nothing: when the buyer's debit
   fails (insufficient balance or a refusing token), a fee transfer fails or
   the mint fails, the call fails, no asset is minted, no balance changes and
   UserStats and income state are unchanged: every step either fails and
   changes nothing, or is a purchase none of whose debit, fee transfers and
   mint fails, or is no purchase. *)
C6_PurchaseAllOrNothing ==
    [][\/ /\ last'.result # "ok"
          /\ UNCHANGED <<storageVars, guardVars, historyVars>>
       \/ /\ last'.op = "purchasePropertyWithLife"
          /\ \A a \in CallArgs, tokenFault \in TokenFaults :
                ~(/\ PurchaseStepFails(a, tokenFault)
                  /\ purchasePropertyWithLife(a.sender, a.propertyType, a.name,
                                              a.location, a.level, tokenFault))
       \/ last'.op # "purchasePropertyWithLife"]_vars

C6_Witness ==
    /\ last.op = "purchasePropertyWithLife"
    /\ last.result = "Invalid name length"
    /\ tokenIdCounter = 1
    /\ lifeBalance["u2"] < 100 * Ether

\* the revert reasons of the validation rules of a direct purchase
ValidationErrors ==
    { "Property type not available", "Invalid level", "Name cannot be empty",
      "Location cannot be empty", "World ID verification required",
      "LIFE payment not accepted", "Level must be between 1 and 10",
      "Invalid name length", "Property type cannot be empty",
      "Invalid location length", "Invalid or inactive property type" }

(* C7: initiatePayment fails with the same validation errors as the direct
   purchase: an initiatePayment call (in the primary currency) succeeds and
   stores a record only on inputs that the direct purchase does not reject for
   validation. *)
C7_SameValidation ==
    [][\A a \in CallArgs :
          (/\ last'.op = "initiatePayment"
           /\ purchaseCheck(a.sender, a.propertyType, a.name, a.location, a.level, "none")
                 \in ValidationErrors
           /\ initiatePayment(a.sender, a.propertyType, a.name, a.location, a.level, FALSE)) =>
             /\ last'.result # "ok"
             /\ UNCHANGED pendingPayments]_vars

(* C8: a successful initiatePayment moves no funds and mints nothing: it adds
   exactly one record with completed = false, buyer = caller, amount = the
   price at call time and createdAt = now, increments only the caller's nonce,
   and leaves balances, assets, owner index, UserStats, income state and all
   other pending records unchanged. *)
C8_InitiateFrame ==
    [][\A a \in LifecycleArgs :
          (/\ last'.op = "initiatePayment" /\ last'.result = "ok"
           /\ initiatePayment(a.sender, a.propertyType, a.name, a.location, a.level, a.useWLD)) =>
             LET id == last'.id
                 base == IF a.useWLD THEN propertyPrices[a.propertyType].wldPrice
                         ELSE propertyPrices[a.propertyType].lifePrice
             IN /\ id \notin DOMAIN pendingPayments
                /\ DOMAIN pendingPayments' = DOMAIN pendingPayments \cup {id}
                /\ \A i \in DOMAIN pendingPayments : pendingPayments'[i] = pendingPayments[i]
                /\ pendingPayments'[id].completed = FALSE
                /\ pendingPayments'[id].buyer = a.sender
                /\ pendingPayments'[id].amount = (base * (100 + (a.level - 1) * 20)) \div 100
                /\ pendingPayments'[id].timestamp = now
                /\ pendingPayments'[id].isWLD = a.useWLD
                /\ \A u \in Users :
                      userNonce'[u] = userNonce[u] + (IF u = a.sender THEN 1 ELSE 0)
                /\ UNCHANGED <<currencyVars, registryVars, statsVars, lastIncomeClaimTime,
                               propertyPrices, guardVars>>]_vars

C8_Witness ==
    /\ last.op = "initiatePayment" /\ last.result = "ok"
    /\ Cardinality(DOMAIN pendingPayments) = 2
    /\ tokenIdCounter = 1
    /\ pendingPayments[last.id].amount = 8

(* C9: payment ids are fresh: a buyer's nonce increases by exactly one on each
   successful initiatePayment of that buyer and never otherwise changes; the
   id a successful initiatePayment returns was never returned before, so it
   overwrites no pending, completed or cancelled record. *)
C9_FreshIds ==
    [][/\ \A u \in Users :
             userNonce'[u] = userNonce[u] +
                (IF last'.op = "initiatePayment" /\ last'.result = "ok" /\ last'.id[1] = u
                 THEN 1 ELSE 0)
       /\ (last'.op = "initiatePayment" /\ last'.result = "ok") =>
             /\ last'.id \notin issued
             /\ last'.id \notin DOMAIN pendingPayments
             /\ last'.id \notin cancelled
             /\ Completions(last'.id) = 0
             /\ issued' = issued \cup {last'.id}
             /\ last'.id[2] = userNonce[last'.id[1]]]_vars

C9_Witness ==
    \E i, j \in issued :
        /\ i # j /\ i[1] = j[1] /\ i[3] = j[3] /\ i[4] = j[4]
        /\ i \in cancelled \/ Completed(i)

(* C10: a successful completePayment(id) mints exactly one new asset, owned by
   the record's buyer, with the record's name, type, location and level and
   purchasePrice = the amount fixed at initiate time; it increments
   totalPurchases[buyer] by one, adds the amount to the spent counter of the
   record's currency only, and sets the asset's last-claim time to now. *)
C10_CompletionEffects ==
    [][\A id \in PaymentIds :
          (Called("completePayment", id) /\ last'.result = "ok") =>
             LET p == pendingPayments[id]
                 t == tokenIdCounter
             IN /\ last'.tokenId = t
                /\ tokenIdCounter' = t + 1
                /\ owners[t] = ZERO /\ owners'[t] = p.buyer
                /\ \A o \in TokenIds \ {t} :
                      /\ owners'[o] = owners[o]
                      /\ properties'[o] = properties[o]
                      /\ lastIncomeClaimTime'[o] = lastIncomeClaimTime[o]
                /\ ownerTokens' = [ownerTokens EXCEPT ![p.buyer] = Append(@, t)]
                /\ properties'[t].name = p.name
                /\ properties'[t].propertyType = p.propertyType
                /\ properties'[t].location = p.location
                /\ properties'[t].level = p.level
                /\ properties'[t].purchasePrice = p.amount
                /\ properties'[t].originalOwner = p.buyer
                /\ totalPurchases' = [totalPurchases EXCEPT ![p.buyer] = @ + 1]
                /\ totalSpentWld' = [totalSpentWld EXCEPT ![p.buyer] =
                                        @ + (IF p.isWLD THEN p.amount ELSE 0)]
                /\ totalSpentLife' = [totalSpentLife EXCEPT ![p.buyer] =
                                        @ + (IF p.isWLD THEN 0 ELSE p.amount)]
                /\ lastIncomeClaimTime'[t] = now
                /\ pendingPayments'[id] = [p EXCEPT !.completed = TRUE]
                /\ UNCHANGED <<currencyVars, userNonce, propertyPrices>>]_vars

C10_Witness ==
    /\ last.op = "completePayment" /\ last.result = "ok"
    /\ properties[last.tokenId].purchasePrice = pendingPayments[last.id].amount
    /\ pendingPayments[last.id].amount #
          FinalPrice(pendingPayments[last.id].propertyType,
                     pendingPayments[last.id].level, pendingPayments[last.id].isWLD)
    /\ last.tokenId = 1

(* C11: a successful purchasePropertyWithLife debits the buyer exactly the
   computed price, transfers price*treasuryFee/10000 and price*devFee/10000
   (truncated) to the treasury and the dev wallet, the remainder staying with
   the ledger; it mints exactly one asset to the buyer with purchasePrice =
   price, adds one to totalPurchases[buyer] and price to totalSpentLife[buyer],
   and sets the asset's last-claim time to now. *)
C11_PurchaseEffects ==
    [][\A a \in CallArgs :
          (/\ last'.op = "purchasePropertyWithLife" /\ last'.result = "ok"
           /\ \E tokenFault \in TokenFaults :
                 purchasePropertyWithLife(a.sender, a.propertyType, a.name,
                                          a.location, a.level, tokenFault)) =>
             LET price == DirectPrice(a)
                 treasuryShare == (price * treasuryFee) \div 10000
                 devShare == (price * devFee) \div 10000
                 t == tokenIdCounter
             IN /\ lifeBalance'[a.sender] = lifeBalance[a.sender] - price
                /\ lifeBalance'[Treasury] = lifeBalance[Treasury] + treasuryShare
                /\ lifeBalance'[DevWallet] = lifeBalance[DevWallet] + devShare
                /\ lifeBalance'[Economy] =
                      lifeBalance[Economy] + price - treasuryShare - devShare
                /\ \A u \in Users \ {a.sender} : lifeBalance'[u] = lifeBalance[u]
                /\ UNCHANGED wldBalance
                /\ last'.tokenId = t
                /\ tokenIdCounter' = t + 1
                /\ owners[t] = ZERO /\ owners'[t] = a.sender
                /\ \A o \in TokenIds \ {t} :
                      /\ owners'[o] = owners[o]
                      /\ properties'[o] = properties[o]
                      /\ lastIncomeClaimTime'[o] = lastIncomeClaimTime[o]
                /\ ownerTokens' = [ownerTokens EXCEPT ![a.sender] = Append(@, t)]
                /\ properties'[t].purchasePrice = price
                /\ properties'[t].name = a.name
                /\ properties'[t].level = a.level
                /\ totalPurchases' = [totalPurchases EXCEPT ![a.sender] = @ + 1]
                /\ totalSpentLife' = [totalSpentLife EXCEPT ![a.sender] = @ + price]
                /\ UNCHANGED <<totalSpentWld, totalIncomeEarned>>
                /\ lastIncomeClaimTime'[t] = now]_vars

C11_Witness ==
    /\ last.op = "purchasePropertyWithLife" /\ last.result = "ok"
    /\ lifeBalance[Treasury] > 0
    /\ lifeBalance[DevWallet] > 0
    /\ lifeBalance[Economy] > lifeBalance[Treasury]
    /\ tokenIdCounter = 2

\* the ids in an owner's list
Listed(a) == {ownerTokens[a][i] : i \in 1..Len(ownerTokens[a])}

\* every existing id is listed exactly once, by its owner; no other id is
\* listed: every entry of a list is an asset of that owner, no list repeats
\* an entry, and every existing asset is an entry of its owner's list
ListedOnceByOwner ==
    /\ \A a \in Accounts : \A i \in 1..Len(ownerTokens[a]) :
          /\ owners[ownerTokens[a][i]] = a
          /\ \A j \in 1..Len(ownerTokens[a]) :
                j # i => ownerTokens[a][j] # ownerTokens[a][i]
    /\ \A t \in TokenIds :
          owners[t] # ZERO => t \in Listed(owners[t])

(* C14: across every sequence of mint, transfer, upgrade and burn, every
   existing asset id is listed exactly once over all owners' lists, in the
   list of its current owner, and an id burned or never minted is listed
   nowhere; a burn or transfer of an id leaves the set of the other ids in
   every owner's list unchanged. *)
C14_OwnerIndex ==
    [][/\ ListedOnceByOwner /\ ListedOnceByOwner'
       /\ (last'.op \in {"burn", "transferFrom"}) =>
             \A a \in Accounts :
                Listed(a)' \ {last'.tokenId} = Listed(a) \ {last'.tokenId}]_vars

C14_Witness ==
    /\ last.op = "burn" /\ last.result = "ok" /\ last.tokenId = 0
    /\ ownerTokens["u1"] = <<2, 1>>
    /\ ownerTokensIndex[2] = 0

(* C15: asset ids are monotonic and unique: every successful mint assigns an
   id strictly greater than every id assigned before, the id counter never
   decreases, and an asset comes into existence only under the id of the mint
   that creates it, so the id of a burned asset is never assigned again. *)
C15_MonotonicIds ==
    [][/\ tokenIdCounter' >= tokenIdCounter
       /\ propertyMinted' # propertyMinted =>
             /\ last'.result = "ok"
             /\ propertyMinted' = Append(propertyMinted, last'.tokenId)
             /\ \A i \in 1..Len(propertyMinted) : propertyMinted[i] < last'.tokenId
             /\ owners[last'.tokenId] = ZERO
             /\ owners'[last'.tokenId] # ZERO
       /\ \A t \in TokenIds :
             (owners[t] = ZERO /\ owners'[t] # ZERO) =>
                propertyMinted' = Append(propertyMinted, t)
       /\ (last'.op = "mintProperty" /\ last'.result = "ok") =>
             propertyMinted' # propertyMinted]_vars

C15_Witness ==
    /\ last.op = "mintProperty" /\ last.result = "ok" /\ last.tokenId = 1
    /\ propertyMinted = <<0, 1>>
    /\ owners[0] = ZERO

(* C16: mintProperty and burn succeed only for a caller that holds the
   authorized-minter capability at the time of the call; a call by any other
   caller fails and changes no asset, owner list or id counter; the
   capability of an account changes only by a setAuthorizedMinter call of the
   admin. *)
C16_MinterOnly ==
    [][/\ (last'.op \in {"mintProperty", "burn"}) =>
             IF authorizedMinters[last'.sender]
             THEN TRUE
             ELSE /\ last'.result # "ok"
                  /\ UNCHANGED registryVars
       /\ authorizedMinters' # authorizedMinters =>
             /\ last'.op = "setAuthorizedMinter"
             /\ last'.sender = Admin]_vars

C16_Witness ==
    /\ last.op = "burn" /\ last.result = "Not authorized to burn"
    /\ last.sender = Economy
    /\ owners[last.tokenId] # ZERO

(* C13: for a property type whose price configuration requires verification,
   initiatePayment and purchasePropertyWithLife succeed only for a buyer the
   verification oracle accepts, and otherwise fail without changing state;
   for a type that does not require it the oracle's answer has no effect: the
   call never fails for lack of verification, and the validation gives the
   same result for a verified and an unverified buyer.  (A step that fails
   and changes nothing satisfies the first part whoever called.) *)
C13_VerificationGate ==
    /\ [](\A a \in CallArgs :
             ~propertyPrices[a.propertyType].worldIdRequired =>
                \A other \in Users :
                   /\ \A useWLD \in BOOLEAN :
                         initiatePaymentCheck(a.sender, a.propertyType, a.name,
                                              a.location, a.level, useWLD)
                         = initiatePaymentCheck(other, a.propertyType, a.name,
                                                a.location, a.level, useWLD)
                   /\ purchaseValidation(a.sender, a.propertyType, a.name,
                                         a.location, a.level)
                      = purchaseValidation(other, a.propertyType, a.name,
                                           a.location, a.level))
    /\ [][LET required(a) == propertyPrices[a.propertyType].worldIdRequired
              isInitiate(a) ==
                 \E useWLD \in BOOLEAN :
                    initiatePayment(a.sender, a.propertyType, a.name, a.location,
                                    a.level, useWLD)
              isPurchase(a) ==
                 \E tokenFault \in TokenFaults :
                    purchasePropertyWithLife(a.sender, a.propertyType, a.name,
                                             a.location, a.level, tokenFault)
          IN (last'.op \in {"initiatePayment", "purchasePropertyWithLife"}) =>
                /\ \/ /\ last'.result # "ok"
                      /\ UNCHANGED <<storageVars, guardVars, historyVars>>
                   \/ \A a \in CallArgs :
                         (required(a) /\ a.sender \notin Verified) =>
                            ~(isInitiate(a) \/ isPurchase(a))
                /\ last'.result = "World ID verification required" =>
                      \A a \in CallArgs :
                         ~required(a) => ~(isInitiate(a) \/ isPurchase(a))]_vars

C13_Witness ==
    /\ last.op = "initiatePayment"
    /\ last.result = "World ID verification required"
    /\ \E id \in DOMAIN pendingPayments :
          /\ pendingPayments[id].buyer = "u1"
          /\ propertyPrices[pendingPayments[id].propertyType].worldIdRequired
    /\ \E t \in TokenIds : owners[t] = "u2"

\* the step just taken was a call of op that failed
Failed(op) == last'.op = op /\ last'.result \notin {"ok", "in mint"}

(* C12: a failing external call inside completePayment, sellPropertyToContract
   or claimPropertyIncome aborts the whole operation.  A completePayment whose
   mint is rejected changes nothing but the flag it had set, which is false
   again: the record is completable at once (its window still lasts), and a
   record no completion of which succeeded is cancellable once its window has
   passed.  A failing sale or claim changes nothing, and no sale or claim
   whose credit (lifeToken.mint) fails, and no sale whose burn is refused,
   succeeds: after a sale whose credit failed the asset exists and belongs to
   the seller. *)
C12_AbortsWhole ==
    [][/\ \A id \in issued :
          (Failed("completePayment") /\ InFlight(id)) =>
             /\ last'.id = id
             /\ pendingPayments' = [pendingPayments EXCEPT ![id].completed = FALSE]
             /\ entered' = FALSE /\ frame' = NoFrame
             /\ UNCHANGED <<propertyPrices, userNonce, statsVars, lastIncomeClaimTime,
                            registryVars, currencyVars, historyVars>>
             /\ completePaymentCheck(id)' = "ok"
       /\ \A id \in issued :
          (/\ Called("cancelExpiredPayment", id)
           /\ Exists(id) /\ Completions(id) = 0
           /\ now > pendingPayments[id].timestamp + Hour) =>
             last'.result = "ok"
       /\ (Failed("sellPropertyToContract") \/ Failed("claimPropertyIncome")) =>
             UNCHANGED <<storageVars, guardVars, historyVars>>
       /\ (last'.op = "sellPropertyToContract" /\ last'.result = "ok") =>
             /\ authorizedMinters[Economy]
             /\ ~sellPropertyToContract(last'.sender, last'.tokenId, "mint")
       /\ (last'.op = "claimPropertyIncome" /\ last'.result = "ok") =>
             ~claimPropertyIncome(last'.sender, last'.tokenId, "mint")
       /\ (last'.op = "sellPropertyToContract"
           /\ last'.result \in {"LIFE mint failed", "Not authorized to burn"}) =>
             /\ owners'[last'.tokenId] = last'.sender
             /\ properties'[last'.tokenId] # EmptyProperty]_vars

C12_Witness ==
    /\ last.op = "sellPropertyToContract" /\ last.result = "LIFE mint failed"
    /\ owners[last.tokenId] = last.sender
    /\ last.tokenId \in Listed(last.sender)
    /\ lifeBalance[last.sender] = 10000 * Ether

(* C17: claimPropertyIncome(tokenId) by a claimant succeeds if and only if
   the claimant owns the asset, a non-zero last-claim time is recorded for it
   and now - lastClaim >= 1 day; otherwise it fails, credits nothing and
   changes no state. *)
C17_ClaimIff ==
    [][\A sender \in Users, tokenId \in IncomeTokens :
          (/\ last'.op = "claimPropertyIncome"
           /\ claimPropertyIncome(sender, tokenId, "none")) =>
             /\ (last'.result = "ok") <=>
                   (/\ owners[tokenId] = sender
                    /\ lastIncomeClaimTime[tokenId] > 0
                    /\ now - lastIncomeClaimTime[tokenId] >= Day)
             /\ last'.result # "ok" =>
                   UNCHANGED <<storageVars, guardVars, historyVars>>]_vars

(* C18: a claim made within the same day as a preceding successful claim on
   the same asset credits nothing and changes no state: last-claim time,
   balances and totalIncomeEarned are unchanged. *)
C18_SameDayNoOp ==
    [][(/\ last'.op = "claimPropertyIncome"
        /\ incomeClaimed[last'.tokenId] # <<>>
        /\ now - lastIncomeClaimTime[last'.tokenId] < Day) =>
          /\ last'.result # "ok"
          /\ UNCHANGED <<lastIncomeClaimTime, currencyVars, statsVars>>
          /\ UNCHANGED <<storageVars, guardVars, historyVars>>]_vars

C18_Witness ==
    /\ last.op = "claimPropertyIncome"
    /\ last.result = "Income not available yet"
    /\ incomeClaimed[last.tokenId] # <<>>
    /\ now > lastIncomeClaimTime[last.tokenId]
    /\ now - lastIncomeClaimTime[last.tokenId] < Day

RECURSIVE SumSeq(_)
SumSeq(q) == IF q = <<>> THEN 0 ELSE Head(q) + SumSeq(Tail(q))

\* what one claim over n whole days credits for an asset of age n days
IncomeOverDays(tokenId, n) ==
    LET base == baseIncomeRate * n
        bonus == (base * holdingBonusRate * n) \div 10000
        cap == (base * maxHoldingBonus) \div 10000
    IN ((base + (IF bonus > cap THEN cap ELSE bonus))
          * (100 + (properties[tokenId].level - 1) * 10)) \div 100

(* C19: for an asset held (never transferred) at constant level, under
   unchanged rates, the total credited by the claims made up to day N equals
   what a single claim after the N days credits, however the days were
   divided into claims. *)
C19_IncomeAdditive ==
    [][(/\ last'.op = "claimPropertyIncome" /\ last'.result = "ok"
        /\ properties[last'.tokenId].lastTransferTime
              = properties[last'.tokenId].createdAt) =>
          SumSeq(incomeClaimed'[last'.tokenId])
             = IncomeOverDays(last'.tokenId,
                              (now - properties[last'.tokenId].createdAt) \div Day)]_vars

(* C20: a successful claim credits the claimant exactly
   totalIncome = (baseIncome + holdingBonus) * (100 + (level-1)*10) / 100,
   with baseIncome = baseRate * floor((now-lastClaim)/day) and holdingBonus =
   min(baseIncome*holdingBonusRate*floor((now-createdAt)/day)/10000,
   baseIncome*maxHoldingBonus/10000), all divisions truncating; it sets the
   last-claim time to now and adds totalIncome to the claimant's
   totalIncomeEarned, and changes nothing else. *)
C20_ClaimAmount ==
    [][(last'.op = "claimPropertyIncome" /\ last'.result = "ok") =>
          LET t == last'.tokenId
              claimant == last'.sender
              baseIncome == baseIncomeRate * ((now - lastIncomeClaimTime[t]) \div 86400)
              uncapped == (baseIncome * holdingBonusRate
                              * ((now - properties[t].createdAt) \div 86400)) \div 10000
              cap == (baseIncome * maxHoldingBonus) \div 10000
              holdingBonus == IF uncapped < cap THEN uncapped ELSE cap
              totalIncome == ((baseIncome + holdingBonus)
                                 * (100 + (properties[t].level - 1) * 10)) \div 100
          IN /\ lifeBalance' = [lifeBalance EXCEPT ![claimant] = @ + totalIncome]
             /\ lastIncomeClaimTime' = [lastIncomeClaimTime EXCEPT ![t] = now]
             /\ totalIncomeEarned' = [totalIncomeEarned EXCEPT ![claimant] = @ + totalIncome]
             /\ incomeClaimed'[t] = Append(incomeClaimed[t], totalIncome)
             /\ UNCHANGED <<wldBalance, registryVars, pendingPayments, totalPurchases,
                            totalSpentLife, totalSpentWld, rateVars>>]_vars

C20_Witness ==
    /\ last.op = "claimPropertyIncome" /\ last.result = "ok"
    /\ holdingBonusRate * ((now - properties[last.tokenId].createdAt) \div Day)
          > maxHoldingBonus
    /\ Len(incomeClaimed[last.tokenId]) = 1
    /\ totalIncomeEarned[last.sender] = incomeClaimed[last.tokenId][1]
    /\ incomeClaimed[last.tokenId][1] > 2 * baseIncomeRate

(* --------------------------- pricing claims ---------------------------- *)
\* the type has no price entry or an inactive one
TypeUnavailable(propertyType) == ~propertyPrices[propertyType].isActive

\* the base price of the type in the requested currency is zero
NoBasePrice(propertyType, useWLD) ==
    IF useWLD THEN propertyPrices[propertyType].wldPrice = 0
    ELSE propertyPrices[propertyType].lifePrice = 0

LevelOutOfRange(level) == level < 1 \/ level > 10

\* the revert reasons that report an unknown or inactive type, and a bad level
TypeErrors ==
    { "Property type not available", "WLD payment not accepted",
      "LIFE payment not accepted" }
LevelErrors == { "Invalid level" }

(* C24: every price-computing path returns no price when the type has no
   configuration, is inactive or has a zero base price in the requested
   currency, or when the level is outside 1..10: initiatePayment, the direct
   purchase and the price query each fail on such inputs, with the type error
   for an unavailable type and the level error for a level out of range of an
   available type. *)
C24_PriceRejects ==
    [][/\ \A a \in CallArgs, useWLD \in BOOLEAN :
            (/\ last'.op = "initiatePayment"
             /\ \/ TypeUnavailable(a.propertyType)
                \/ NoBasePrice(a.propertyType, useWLD)
                \/ LevelOutOfRange(a.level)
             /\ initiatePayment(a.sender, a.propertyType, a.name, a.location,
                                a.level, useWLD)) =>
               /\ last'.result # "ok"
               /\ TypeUnavailable(a.propertyType) => last'.result \in TypeErrors
               /\ (~TypeUnavailable(a.propertyType) /\ LevelOutOfRange(a.level)) =>
                     last'.result \in LevelErrors
       /\ \A a \in CallArgs, tokenFault \in TokenFaults :
            (/\ last'.op = "purchasePropertyWithLife"
             /\ \/ TypeUnavailable(a.propertyType)
                \/ NoBasePrice(a.propertyType, FALSE)
                \/ LevelOutOfRange(a.level)
             /\ purchasePropertyWithLife(a.sender, a.propertyType, a.name, a.location,
                                         a.level, tokenFault)) =>
               /\ last'.result # "ok"
               /\ TypeUnavailable(a.propertyType) => last'.result \in TypeErrors
               /\ (~TypeUnavailable(a.propertyType) /\ LevelOutOfRange(a.level)) =>
                     last'.result \in LevelErrors
       /\ \A q \in QueryArgs :
            (/\ last'.op = "calculatePropertyPrice"
             /\ \/ TypeUnavailable(q[1])
                \/ NoBasePrice(q[1], FALSE) /\ NoBasePrice(q[1], TRUE)
                \/ LevelOutOfRange(q[2])
             /\ calculatePropertyPrice(q[1], q[2])) =>
               /\ last'.result # "ok"
               /\ TypeUnavailable(q[1]) => last'.result \in TypeErrors
               /\ (~TypeUnavailable(q[1]) /\ LevelOutOfRange(q[2])) =>
                     last'.result \in LevelErrors]_vars

\* base * (100 + (level-1)*20) / 100 with truncating division
PriceAt(base, level) == (base * (100 + (level - 1) * 20)) \div 100

(* C25: the price of (type, level, currency) is the type's base price in that
   currency times (100 + (level-1)*20), divided by 100 with truncation:
   a successful initiatePayment records it as the amount, a successful direct
   purchase debits it from the buyer and records it as the purchase price, and
   a successful price query returns it for both currencies, so the three
   paths yield the same value. *)
C25_PriceFormula ==
    [][/\ (last'.op = "initiatePayment" /\ last'.result = "ok") =>
            \A a \in CallArgs, useWLD \in BOOLEAN :
               initiatePayment(a.sender, a.propertyType, a.name, a.location,
                               a.level, useWLD) =>
                  pendingPayments'[last'.id].amount =
                     PriceAt(IF useWLD THEN propertyPrices[a.propertyType].wldPrice
                             ELSE propertyPrices[a.propertyType].lifePrice, a.level)
       /\ (last'.op = "purchasePropertyWithLife" /\ last'.result = "ok") =>
            \A a \in CallArgs :
               purchasePropertyWithLife(a.sender, a.propertyType, a.name, a.location,
                                        a.level, "none") =>
                  /\ lifeBalance[a.sender] - lifeBalance'[a.sender] =
                        PriceAt(propertyPrices[a.propertyType].lifePrice, a.level)
                  /\ properties'[last'.tokenId].purchasePrice =
                        PriceAt(propertyPrices[a.propertyType].lifePrice, a.level)
       /\ (last'.op = "calculatePropertyPrice" /\ last'.result = "ok") =>
            \A q \in QueryArgs :
               calculatePropertyPrice(q[1], q[2]) =>
                  last'.value = << PriceAt(propertyPrices[q[1]].lifePrice, q[2]),
                                PriceAt(propertyPrices[q[1]].wldPrice, q[2]) >>]_vars

\* a price query returns the truncated price 8 (base 7 at level 2, 8.4) that a
\* direct purchase recorded before it
C25_Witness ==
    /\ last.op = "calculatePropertyPrice"
    /\ last.args = <<"house", 2>>
    /\ last.value[1] = 8
    /\ tokenIdCounter > 0
    /\ properties[0].purchasePrice = 8

(* C26: under a fixed price configuration the price is deterministic and
   non-decreasing in the level: for every type and currency the price at
   level L is at most the price at level L+1 for L in 1..9, what a successful
   initiatePayment charges is the value the price query gives for the same
   type and level whoever calls, and a step that leaves the price
   configuration unchanged leaves every queried price unchanged. *)
C26_PriceMonotone ==
    /\ [](\A t \in AllTypes, level \in 1..9, c \in 1..2 :
             calculatePropertyPriceReturn(t, level)[c]
                <= calculatePropertyPriceReturn(t, level + 1)[c])
    /\ [][/\ propertyPrices' = propertyPrices =>
               \A q \in QueryArgs :
                  calculatePropertyPriceReturn(q[1], q[2])'
                     = calculatePropertyPriceReturn(q[1], q[2])
          /\ (last'.op = "initiatePayment" /\ last'.result = "ok") =>
               \A a \in CallArgs, useWLD \in BOOLEAN :
                  initiatePayment(a.sender, a.propertyType, a.name, a.location,
                                  a.level, useWLD) =>
                     pendingPayments'[last'.id].amount =
                        calculatePropertyPriceReturn(a.propertyType, a.level)
                           [IF useWLD THEN 2 ELSE 1]]_vars

\* both users were quoted the same amount for the same type and level after
\* the admin re-priced the type, and the query at the maximum level has been
\* answered
C26_Witness ==
    /\ last.op = "calculatePropertyPrice"
    /\ last.args = <<"house", 10>>
    /\ last.value[1] = 19
    /\ \E i, j \in DOMAIN pendingPayments :
          /\ pendingPayments[i].buyer # pendingPayments[j].buyer
          /\ pendingPayments[i].amount = 8
          /\ pendingPayments[j].amount = 8

(* ----------------------------- asset claims ---------------------------- *)
\* the id was issued and its asset no longer exists
Burned(tokenId) == tokenId < tokenIdCounter /\ owners[tokenId] = ZERO

\* the operations on an asset that the claims below speak of
AssetOps ==
    { "claimPropertyIncome", "upgradeProperty", "transferFrom",
      "sellPropertyToContract" }

(* C22: sellPropertyToContract succeeds only if the seller owns the asset; it
   credits the seller exactly purchasePrice * buybackPercentage / 10000
   (truncated) and nobody else, and afterwards the asset is burned: the
   registry's query on the id fails, the id is in no owner's list, and every
   later claim, upgrade, transfer or sell-back on the id fails and leaves it
   burned. *)
C22_SellBack ==
    /\ [](\A t \in TokenIds : Burned(t) =>
             /\ \A a \in Accounts : t \notin Listed(a)
             /\ properties[t] = EmptyProperty
             /\ getPropertyCheck(t) # "ok")
    /\ [][/\ (last'.op = "sellPropertyToContract" /\ last'.result = "ok") =>
               \A seller \in Users, t \in AssetTokens :
                  sellPropertyToContract(seller, t, "none") =>
                     /\ owners[t] = seller
                     /\ lifeBalance' = [lifeBalance EXCEPT ![seller] =
                           @ + (properties[t].purchasePrice * buybackPercentage) \div 10000]
                     /\ Burned(t)'
          /\ \A t \in AssetTokens : Burned(t) =>
               /\ Burned(t)'
               /\ (last'.op \in AssetOps /\ last'.tokenId = t) => last'.result # "ok"
               /\ (last'.op = "getProperty" /\ last'.args = <<t>>) => last'.result # "ok"]_vars

\* a sell-back at the re-set percentage 3333 truncated its credit
\* (26000 * 3333 / 10000 = 8665.8), and a later claim on the id failed
C22_Witness ==
    /\ Burned(0)
    /\ buybackPercentage = 3333
    /\ lifeBalance["u2"] = 100 * Ether + 8665
    /\ last.op = "claimPropertyIncome"
    /\ last.tokenId = 0
    /\ last.result # "ok"

(* C27: upgradeProperty succeeds if and only if the asset exists, the caller
   is its owner and its level is below 10; a successful upgrade raises the
   level by exactly 1 and leaves the owner, purchasePrice, createdAt and the
   last-claim time unchanged, a failed one changes nothing; consequently the
   level of every existing asset is within 1..10 in every reachable state. *)
C27_UpgradeIff ==
    /\ [](\A t \in TokenIds : owners[t] # ZERO =>
             (properties[t].level >= 1 /\ properties[t].level <= 10))
    /\ [][last'.op = "upgradeProperty" =>
            \A by \in Users, t \in AssetTokens :
               upgradeProperty(by, t) =>
                  /\ last'.result = "ok" <=>
                        (owners[t] # ZERO /\ owners[t] = by /\ properties[t].level < 10)
                  /\ last'.result = "ok" =>
                        /\ properties'[t].level = properties[t].level + 1
                        /\ properties'[t].purchasePrice = properties[t].purchasePrice
                        /\ properties'[t].createdAt = properties[t].createdAt
                        /\ \A u \in TokenIds \ {t} : properties'[u] = properties[u]
                  /\ last'.result # "ok" => properties' = properties
                  /\ UNCHANGED <<owners, ownerTokens, lastIncomeClaimTime, lifeBalance>>]_vars

\* the second owner upgraded the asset to the maximum level after an income
\* claim had moved its last-claim time
C27_Witness ==
    /\ last.op = "upgradeProperty"
    /\ last.result = "ok"
    /\ last.sender = "u2"
    /\ properties[0].level = 10
    /\ lastIncomeClaimTime[0] > properties[0].createdAt

(* C28: after every successful mint and every successful upgrade the asset's
   statusPoints equal baseStatusPoints(type) * level and its yieldRate equals
   baseYieldRate(type) + (level-1)*50, with the type configuration in force
   at that operation and the asset's new level. *)
C28_DerivedStats ==
    [][(/\ last'.op \in {"purchasePropertyWithLife", "upgradeProperty"}
        /\ last'.result = "ok") =>
          \A t \in TokenIds : last'.tokenId = t =>
             /\ properties'[t].statusPoints =
                   propertyTypeConfigs[properties'[t].propertyType].baseStatusPoints
                      * properties'[t].level
             /\ properties'[t].yieldRate =
                   propertyTypeConfigs[properties'[t].propertyType].baseYieldRate
                      + (properties'[t].level - 1) * 50]_vars

\* an asset minted under the default configuration (900 points) was upgraded
\* after the admin installed base values 7 and 11
C28_Witness ==
    /\ last.op = "upgradeProperty"
    /\ last.result = "ok"
    /\ propertyTypeConfigs["house"].baseStatusPoints = 7
    /\ properties[0].level = 10
    /\ properties[0].statusPoints = 70
    /\ properties[0].yieldRate = 461

(* C29: transferFrom(from, to, id) succeeds only if from owns id; it makes to
   the owner, removes id from from's list and appends it at the end of to's
   list, sets lastTransferTime to now and leaves the other fields of the
   asset, every other asset and the last-claim time unchanged; afterwards
   from is refused as non-owner by claim, upgrade and sell-back while to is
   not, and every successful claim, upgrade or sell-back is by the owner. *)
C29_Transfer ==
    [][/\ last'.op = "transferFrom" =>
            \A from \in Users, t \in TokenIds : \A to \in Users \ {from} :
               transferFrom(from, from, to, t) =>
                  /\ last'.result = "ok" =>
                        /\ owners[t] = from
                        /\ owners' = [owners EXCEPT ![t] = to]
                        /\ \A i \in 1..Len(ownerTokens'[from]) : ownerTokens'[from][i] # t
                        /\ Len(ownerTokens'[from]) = Len(ownerTokens[from]) - 1
                        /\ ownerTokens'[to] = Append(ownerTokens[to], t)
                        /\ properties' =
                              [properties EXCEPT ![t].lastTransferTime = now]
                        /\ claimPropertyIncomeCheck(from, t, "none")' = "Not property owner"
                        /\ upgradePropertyCheck(from, t)' = "Not the owner"
                        /\ sellPropertyToContractCheck(from, t, "none")' = "Not property owner"
                        /\ claimPropertyIncomeCheck(to, t, "none")' # "Not property owner"
                        /\ upgradePropertyCheck(to, t)' # "Not the owner"
                        /\ sellPropertyToContractCheck(to, t, "none")' = "ok"
                  /\ last'.result # "ok" => UNCHANGED <<owners, ownerTokens, properties>>
                  /\ UNCHANGED <<lastIncomeClaimTime, lifeBalance, statsVars>>
       /\ (/\ last'.op \in {"claimPropertyIncome", "upgradeProperty",
                            "sellPropertyToContract"}
           /\ last'.result = "ok") =>
             \A t \in TokenIds : last'.tokenId = t => last'.sender = owners[t]]_vars

\* the asset joined the new owner's list behind the asset already there, at
\* a time later than its creation
C29_Witness ==
    /\ last.op = "transferFrom"
    /\ last.result = "ok"
    /\ ownerTokens["u2"] = <<1, 0>>
    /\ ownerTokens["u1"] = <<>>
    /\ properties[0].lastTransferTime > properties[0].createdAt

(* ----------------------------- income claims --------------------------- *)
(* C21: getIncomeAvailable never changes state and, for every existing asset
   at every time, returns exactly the amount that a claim by the current
   owner at that time credits, and 0 whenever such a claim is rejected as not
   eligible or not yet available. *)
C21_PreviewMatchesClaim ==
    /\ [](\A t \in IncomeTokens : (owners[t] # ZERO /\ frame = NoFrame) =>
             /\ getIncomeAvailableCheck(t) = "ok"
             /\ getIncomeAvailableReturn(t) =
                   IF claimPropertyIncomeCheck(owners[t], t, "none") = "ok"
                   THEN TotalIncome(t) ELSE 0)
    /\ [][/\ last'.op = "getIncomeAvailable" =>
               UNCHANGED <<storageVars, guardVars, historyVars, clockVars>>
          /\ last'.op = "claimPropertyIncome" =>
               \A t \in IncomeTokens, sender \in Users :
                  (/\ last'.tokenId = t /\ last'.sender = sender
                   /\ owners[t] = sender
                   /\ claimPropertyIncome(sender, t, "none")) =>
                     /\ last'.result = "ok" =>
                           lifeBalance'[sender] - lifeBalance[sender]
                              = getIncomeAvailableReturn(t)
                     /\ last'.result \in {"Property not eligible for income",
                                          "Income not available yet"} =>
                           getIncomeAvailableReturn(t) = 0]_vars

\* the view answered with a positive amount for an asset that had changed
\* hands and had been claimed from before
C21_Witness ==
    /\ last.op = "getIncomeAvailable"
    /\ last.result = "ok"
    /\ last.value > 0
    /\ owners[0] = "u2"
    /\ Len(incomeClaimed[0]) > 0

(* C30: the UserStats counters totalPurchases, totalSpentLife, totalSpentWld
   and totalIncomeEarned of every user never decrease across any step,
   including sell-back (and the burn in it), cancelExpiredPayment, transfer
   and failed operations. *)
C30_StatsMonotone ==
    [][\A u \in Users :
          /\ totalPurchases'[u] >= totalPurchases[u]
          /\ totalSpentLife'[u] >= totalSpentLife[u]
          /\ totalSpentWld'[u] >= totalSpentWld[u]
          /\ totalIncomeEarned'[u] >= totalIncomeEarned[u]]_vars

\* the buyer sold the asset back after purchase and income had been counted
C30_Witness ==
    /\ last.op = "sellPropertyToContract"
    /\ last.result = "ok"
    /\ last.sender = "u1"
    /\ totalPurchases["u1"] = 1
    /\ totalSpentWld["u1"] > 0
    /\ totalIncomeEarned["u1"] > 0

(* --------------------------- reentrancy claim -------------------------- *)
\* a claim or sell-back call is suspended in its credit call
InCredit == frame.op \in {"claimPropertyIncome", "sellPropertyToContract"}

(* C23: claimPropertyIncome has written lastIncomeClaimTime = now, and
   sellPropertyToContract has burned the asset, by the time its external
   credit call runs; a claim or sell-back on the same asset made from inside
   the credit call is rejected and changes nothing, and the only credit of
   the call is the one amount fixed before the credit call, paid once at its
   return. *)
C23_NoSecondCredit ==
    /\ [](/\ frame.op = "claimPropertyIncome" =>
               lastIncomeClaimTime[frame.tokenId] = now
          /\ frame.op = "sellPropertyToContract" =>
               /\ owners[frame.tokenId] = ZERO
               /\ \A a \in Accounts : frame.tokenId \notin Listed(a))
    /\ [][/\ (InCredit /\ last'.nested) =>
               /\ last'.result # "ok"
               /\ UNCHANGED <<storageVars, guardVars, historyVars>>
          /\ (InCredit /\ ~last'.nested) =>
               /\ frame' = NoFrame
               /\ \/ /\ last'.result = "ok"
                     /\ lifeBalance' = [lifeBalance EXCEPT ![frame.sender] = @ + frame.amount]
                  \/ /\ last'.result # "ok"
                     /\ lifeBalance' = lifeBalance
          /\ ~InCredit => lifeBalance'["u1"] + lifeBalance'["u2"]
                             <= lifeBalance["u1"] + lifeBalance["u2"]]_vars

\* a sell-back attempted from inside the credit call of a claim on the same
\* asset was rejected by the guard
C23_Witness ==
    /\ frame.op = "claimPropertyIncome"
    /\ last.op = "sellPropertyToContract"
    /\ last.nested
    /\ last.sender = frame.sender
    /\ last.tokenId = frame.tokenId
    /\ last.result = "ReentrancyGuardReentrantCall"

(* ------------------------- claims on the configuration ----------------- *)
\* the fee and buy-back settings, and the two fee addresses
feeConfig == <<treasuryFee, devFee, treasury, devWallet, buybackPercentage>>
\* everything the admin functions of the two contracts configure
configVars == <<propertyPrices, feeConfig, baseIncomeRate, holdingBonusRate,
                maxHoldingBonus, authorizedMinters, propertyTypeConfigs>>
BoundedSetters == {"setFees", "setTreasury", "setDevWallet", "setBuybackPercentage"}
BoundErrors == {"Total fees cannot exceed 10%", "Percentage cannot exceed 100%",
                "Invalid treasury address", "Invalid dev wallet address"}

(* C31: in every reachable state treasuryFee + devFee <= 1000 basis points and
   buybackPercentage <= 10000, and neither fee address is the zero address.
   A setFees call whose sum exceeds 1000, a setBuybackPercentage call above
   10000, and a setTreasury or setDevWallet call with the zero address are
   rejected with the setter's message and leave the configuration unchanged. *)
C31_FeeBounds ==
    /\ [](/\ treasuryFee + devFee <= 1000
          /\ buybackPercentage <= 10000
          /\ treasury # ZERO /\ devWallet # ZERO)
    /\ [][/\ \A f \in FeeChoices :
               (f[1] + f[2] > 1000 /\ setFees(f[1], f[2])) =>
                   /\ last'.result = "Total fees cannot exceed 10%"
                   /\ UNCHANGED configVars
          /\ \A percentage \in BuybackChoices :
               (percentage > 10000 /\ setBuybackPercentage(percentage)) =>
                   /\ last'.result = "Percentage cannot exceed 100%"
                   /\ UNCHANGED configVars
          /\ setTreasury(ZERO) =>
               last'.result = "Invalid treasury address" /\ UNCHANGED configVars
          /\ setDevWallet(ZERO) =>
               last'.result = "Invalid dev wallet address" /\ UNCHANGED configVars
          /\ (last'.op \in BoundedSetters /\ last'.result \in BoundErrors) =>
               UNCHANGED <<configVars, configEvents>>]_vars

\* the fees were raised to the limit and a later setter call was rejected
C31_Witness ==
    /\ treasuryFee + devFee = 1000
    /\ last.op = "setFees"
    /\ last.result = "Total fees cannot exceed 10%"

\* the step is a call of an admin function by sender
ConfigCallBy(sender) ==
    \/ \E propertyType \in ConfigurableTypes, price \in PriceChoices :
          onlyOwner(sender, "setPropertyPrice", setPropertyPrice(propertyType, price))
    \/ \E f \in FeeChoices : onlyOwner(sender, "setFees", setFees(f[1], f[2]))
    \/ \E a \in AddressChoices : onlyOwner(sender, "setTreasury", setTreasury(a))
    \/ \E a \in AddressChoices : onlyOwner(sender, "setDevWallet", setDevWallet(a))
    \/ \E percentage \in BuybackChoices :
          onlyOwner(sender, "setBuybackPercentage", setBuybackPercentage(percentage))
    \/ \E r \in IncomeRateChoices :
          onlyOwner(sender, "setIncomeRates", setIncomeRates(r[1], r[2], r[3]))
    \/ \E authorized \in BOOLEAN : setAuthorizedMinter(sender, Economy, authorized)
    \/ \E propertyType \in ConfigurableTypes, config \in TypeConfigChoices :
          onlyOwner(sender, "setPropertyTypeConfig",
                    setPropertyTypeConfig(propertyType, config))

(* C32: a configuration mutator takes effect only when the admin calls it.
   A call of any of them by another principal fails with
   OwnableUnauthorizedAccount and leaves all configuration unchanged, and
   every step that changes the configuration is a call by the admin. *)
C32_AdminOnly ==
    [][/\ \A sender \in AdminCallers \ {Admin} :
             ConfigCallBy(sender) =>
                 /\ last'.result = "OwnableUnauthorizedAccount"
                 /\ UNCHANGED <<configVars, configEvents>>
       /\ (configVars' # configVars) => ConfigCallBy(Admin)]_vars

\* a user's call was rejected after the admin had changed the fees
C32_Witness ==
    /\ last.result = "OwnableUnauthorizedAccount"
    /\ last.sender = "u2"
    /\ last.op = "setFees"
    /\ treasuryFee = 600

EventSetters == {"setPropertyPrice", "setFees", "setTreasury", "setDevWallet",
                 "setBuybackPercentage", "setIncomeRates"}

(* C33: every successful call of setPropertyPrice, setFees, setTreasury,
   setDevWallet, setBuybackPercentage and setIncomeRates appends exactly one
   event to the log of configuration events. *)
C33_EventPerSetter ==
    [][(last'.op \in EventSetters /\ last'.result = "ok" /\ adminOps' = adminOps + 1) =>
          Len(configEvents') = Len(configEvents) + 1]_vars


(* ------------------------- claims on the payment window ---------------- *)
\* a record for id is stored, is not completed, and no call is in flight
Open(id) == Exists(id) /\ ~Payment(id).completed /\ frame = NoFrame

(* C35: for a stored, uncompleted payment record the time guards of
   completePayment and cancelExpiredPayment are exact complements: at every
   instant exactly one of the two calls passes its checks, completePayment up
   to and including createdAt + 1 hour and cancelExpiredPayment after it.  At
   createdAt + 1 hour a completePayment call proceeds and a
   cancelExpiredPayment call is rejected with "Payment not expired". *)
C35_WindowComplement ==
    /\ [](\A id \in PaymentIds :
            Open(id) =>
              /\ (completePaymentCheck(id) = "ok") <=> (cancelExpiredPaymentCheck(id) # "ok")
              /\ (completePaymentCheck(id) = "ok") <=> (now <= Payment(id).timestamp + Hour)
              /\ completePaymentCheck(id) \in {"ok", "Payment expired"}
              /\ cancelExpiredPaymentCheck(id) \in {"ok", "Payment not expired"})
    /\ [][\A id \in PaymentIds :
            (Open(id) /\ now = Payment(id).timestamp + Hour /\ last'.id = id) =>
              /\ last'.op = "completePayment" => last'.result = "in mint"
              /\ last'.op = "cancelExpiredPayment" =>
                    last'.result = "Payment not expired" /\ UNCHANGED pendingPayments]_vars

\* at the boundary instant a cancellation was rejected and the record is
\* still open for completion
C35_Witness ==
    \E id \in PaymentIds :
        /\ Open(id)
        /\ now = Payment(id).timestamp + Hour
        /\ last = Call("cancelExpiredPayment", id, "Payment not expired", NoToken, FALSE)


(* C36: completePayment is callable by any principal: a call on a record
   behaves the same whoever sends it, the buyer or not.  Neither
   initiatePayment nor completePayment changes a balance of either currency
   or distributes a fee: once a record is completed, an asset with
   purchasePrice = amount > 0 exists and the buyer, the treasury, the dev
   wallet and the ledger hold in both currencies what they held before the
   payment was initiated. *)
C36_NoCharge ==
    /\ [][/\ \A id \in PaymentIds :
              (\E caller \in Users : completePayment(caller, id)) =>
                  \A caller \in Users : completePayment(caller, id)
          /\ last'.op \in {"initiatePayment", "completePayment"} =>
                  UNCHANGED <<currencyVars, feeVars>>]_vars
    /\ [](\A t \in TokenIds :
            (owners[t] # ZERO /\ mintOrigin[t] \in issued) =>
               /\ properties[t].purchasePrice = Payment(mintOrigin[t]).amount
               /\ properties[t].purchasePrice > 0
               /\ \A a \in Accounts :
                     /\ lifeBalance[a] =
                           (IF a = "u1" THEN 10000 * Ether
                            ELSE IF a = "u2" THEN 100 * Ether ELSE 0)
                     /\ wldBalance[a] = (IF a \in Users THEN 100 * Ether ELSE 0))

\* a LIFE payment of u2 was completed and u2 still holds 100 LIFE, less than
\* the price of the asset
C36_Witness ==
    /\ last.op = "completePayment" /\ last.result = "ok"
    /\ ~Payment(last.id).isWLD
    /\ Payment(last.id).buyer = "u2"
    /\ properties[last.tokenId].purchasePrice = Payment(last.id).amount
    /\ lifeBalance["u2"] < Payment(last.id).amount


(* ------------------------- claims on the position index ---------------- *)
\* positions are 0-based in the contract: the i-th element of a sequence
\* is at position i - 1
IndexConsistent ==
    \A o \in Accounts :
        /\ \A i \in 1..Len(ownerTokens[o]) : ownerTokensIndex[ownerTokens[o][i]] = i - 1
        /\ \A i, j \in 1..Len(ownerTokens[o]) :
              ownerTokens[o][i] = ownerTokens[o][j] => i = j

(* C37: after every sequence of mints, transfers (a transfer to oneself
   included) and burns, the position index agrees with the owner lists:
   the id at position i of an owner's list has index i, and no list holds an
   id twice.  The removal of the last element and the removal of a middle
   element (swap with the last, then pop) both preserve this, and a removal
   shortens the list by exactly one. *)
C37_IndexConsistent ==
    /\ []IndexConsistent
    /\ [][(last'.op \in {"burn", "transferFrom"} /\ last'.result = "ok") =>
            \A o \in Accounts :
               owners[last'.tokenId] = o =>
                  Len(ownerTokens'[o]) =
                     Len(ownerTokens[o]) - (IF owners'[last'.tokenId] = o THEN 0 ELSE 1)]_vars

\* u1 transferred the first of its three assets to itself: the last one was
\* swapped into the gap and the transferred one appended
C37_Witness ==
    /\ last.op = "transferFrom" /\ last.result = "ok" /\ last.tokenId = 0
    /\ ownerTokens["u1"] = <<2, 1, 0>>
    /\ ownerTokensIndex[2] = 0 /\ ownerTokensIndex[0] = 2


(* ------------------------- claims on the claimed days ------------------ *)
(* C38: for every existing asset the days paid by all its successful claims
   together never exceed the whole days elapsed since its income started (the
   time of its mint): sum of daysSinceLastClaim <= (now - start) / 1 day,
   whatever the times of the claims and whoever owns the asset.  Only a
   successful claim adds to the days paid, and it adds at least one day. *)
C38_DaysBound ==
    /\ [](\A t \in TokenIds :
            owners[t] # ZERO =>
               /\ SumSeq(incomeDays[t]) <= (now - properties[t].createdAt) \div Day
               /\ SumSeq(incomeDays[t]) * Day <=
                     lastIncomeClaimTime[t] - properties[t].createdAt)
    /\ [][\A t \in TokenIds :
            incomeDays'[t] # incomeDays[t] =>
               /\ last'.op = "claimPropertyIncome" /\ last'.result = "ok"
               /\ last'.tokenId = t
               /\ \E n \in 1..((now - properties[t].createdAt) \div Day) :
                     incomeDays'[t] = Append(incomeDays[t], n)]_vars

\* the asset was claimed on by u1, transferred, and claimed on by u2
C38_Witness ==
    /\ Len(incomeDays[0]) = 2
    /\ owners[0] = "u2"
    /\ last.op = "claimPropertyIncome" /\ last.result = "ok"
    /\ SumSeq(incomeDays[0]) = (now - properties[0].createdAt) \div Day


(* ------------------------- claims on the server routes ----------------- *)
\* the portal returned to q a transaction with q's reference that is not failed
PortalVerified(q) ==
    /\ q.transaction # Nothing
    /\ q.transaction.reference = q.body.reference
    /\ q.transaction.status # "failed"
\* q was answered with success: true
AnsweredSuccess(q) ==
    /\ q.response # Nothing
    /\ "success" \in DOMAIN q.response
    /\ q.response.success
\* number of purchaseProperty calls sent for reference
PurchaseCount(reference) ==
    Cardinality({i \in 1..Len(purchaseCalls) : purchaseCalls[i] = reference})

(* C34: the confirm-payment handler answers success: true, and sends the
   purchase call, only for a request whose payment the portal verified: the
   returned transaction carries the stored reference and is not failed. *)
C34_VerifiedBeforeSuccess ==
    \A r \in Requests :
        /\ AnsweredSuccess(requests[r]) => PortalVerified(requests[r])
        /\ requests[r].pc \in {"purchaseProperty", "tx.wait"} => PortalVerified(requests[r])

(* C39: every stored reference triggers at most one purchaseProperty call,
   with confirmation requests one after another or interleaved; a request
   with a reference that is not stored is answered "Reference mismatch" and
   sends no purchase call. *)
C39_AtMostOnePurchase ==
    /\ \A reference \in 0..MaxReferences : PurchaseCount(reference) <= 1
    /\ \A r \in Requests :
          (/\ requests[r].pc \notin {"idle", "req.json"}
           /\ requests[r].body.ok
           /\ requests[r].paymentData = Nothing) =>
              /\ requests[r].pc = "done"
              /\ requests[r].response.error = "Reference mismatch"

====
